---- MODULE Spec2Model ----
(***************************************************************************)
(* A model of the tender enrichment code of tenderagent-msp:               *)
(*   app/scoring.py    relevance scoring                                   *)
(*   app/cpv_codes.py  CPV reference matching                              *)
(*   app/segments.py   segments, client classification, requirements      *)
(*   app/main.py       the _format_tender pipeline                         *)
(*   main.py           the single-file variant (keyword_in_text, ...)      *)
(*   app/database.py   the cache of raw tenders                            *)
(*   app/tenderned.py  the client of the registry                          *)
(*   app/historie.py   the queries on the award history                    *)
(* Texts are strings; the Python string operations the code uses (lower,   *)
(* in, startswith, split, strip, the regular expressions) are written out  *)
(* character by character.                                                 *)
(***************************************************************************)
EXTENDS Integers, Sequences, FiniteSets, TLC

\* pc, inp, out: the position, the arguments and the result of a call of one
\* of the pure functions; now: the clock, time.time(); db: the tables tenders
\* and cache_meta of cache.db; historie: the file of the award history exists;
\* req: the requests in flight, each with its endpoint, position and locals
VARIABLES pc, inp, out, now, db, historie, req

vars == <<pc, inp, out, now, db, historie, req>>

\* the state outside the pure functions
world == <<now, db, historie, req>>

(***************************************************************************)
(* Python string primitives                                                *)
(***************************************************************************)

\* s[i-1:i] : the i-th character (1-based) as a one-character string
Chr(s, i) == SubSeq(s, i, i)

UpperAlpha == "ABCDEFGHIJKLMNOPQRSTUVWXYZ"

LowerAlpha == "abcdefghijklmnopqrstuvwxyz"

Digits == "0123456789"

LowerMap ==
    [c \in {Chr(UpperAlpha, i) : i \in 1..Len(UpperAlpha)} |->
        Chr(LowerAlpha, CHOOSE i \in 1..Len(UpperAlpha) : Chr(UpperAlpha, i) = c)]

LowerChar(c) == IF c \in DOMAIN LowerMap THEN LowerMap[c] ELSE c

RECURSIVE lower(_)
\* str.lower()
lower(s) ==
    IF Len(s) = 0 THEN "" ELSE LowerChar(Chr(s, 1)) \o lower(SubSeq(s, 2, Len(s)))

\* the substring of s that starts at position i and has the length of sub
At(s, i, sub) == SubSeq(s, i, i + Len(sub) - 1) = sub

\* sub in s
Contains(s, sub) == \E i \in 1..(Len(s) - Len(sub) + 1) : At(s, i, sub)

\* s.startswith(p)
StartsWith(s, p) == Len(p) <= Len(s) /\ SubSeq(s, 1, Len(p)) = p

\* s.endswith(p)
EndsWith(s, p) == Len(p) <= Len(s) /\ SubSeq(s, Len(s) - Len(p) + 1, Len(s)) = p

\* s.split(sep)[-1] for a one-character sep: what follows the last sep
SplitLast(s, sep) ==
    LET hits == {i \in 1..Len(s) : Chr(s, i) = sep}
    IN  IF hits = {} THEN s
        ELSE SubSeq(s, (CHOOSE i \in hits : \A j \in hits : j <= i) + 1, Len(s))

\* s.split(sep)[0] for a one-character sep: what precedes the first sep
SplitFirst(s, sep) ==
    LET hits == {i \in 1..Len(s) : Chr(s, i) = sep}
    IN  IF hits = {} THEN s
        ELSE SubSeq(s, 1, (CHOOSE i \in hits : \A j \in hits : i <= j) - 1)

\* s.strip(): leading and trailing blanks removed
Strip(s) ==
    LET keep == {i \in 1..Len(s) : Chr(s, i) # " "}
    IN  IF keep = {} THEN ""
        ELSE SubSeq(s, CHOOSE i \in keep : \A j \in keep : i <= j,
                       CHOOSE i \in keep : \A j \in keep : j <= i)

RECURSIVE RemoveChar(_, _)
\* s.replace(c, "") for a one-character c
RemoveChar(s, c) ==
    IF Len(s) = 0 THEN ""
    ELSE (IF Chr(s, 1) = c THEN "" ELSE Chr(s, 1)) \o RemoveChar(SubSeq(s, 2, Len(s)), c)

\* s[:n]
Take(s, n) == SubSeq(s, 1, IF n <= Len(s) THEN n ELSE Len(s))

\* f"{a} {b}"
Join2(a, b) == a \o " " \o b

\* dict.get(key, default)
Get(d, key, default) == IF key \in DOMAIN d THEN d[key] ELSE default

Min2(a, b) == IF a <= b THEN a ELSE b

Max2(a, b) == IF a >= b THEN a ELSE b

(***************************************************************************)
(* app/scoring.py                                                          *)
(***************************************************************************)

HIGH_KEYWORDS ==
    << "MSP", "managed service", "inhuur", "detachering", "flexibele schil",
       "ICT-inhuur", "IT-inhuur", "raamovereenkomst ICT", "raamovereenkomst IT",
       "DAS ICT", "DAS IT", "dynamisch aankoopsysteem",
       "IT-personeel", "ICT-personeel", "IT-professionals",
       "softwareontwikkeling", "software development",
       "applicatiebeheer", "application management",
       "cloud", "SaaS", "IaaS", "PaaS",
       "cybersecurity", "informatiebeveiliging",
       "data center", "datacentrum", "hosting",
       "werkplekbeheer", "werkplekdiensten",
       "IT-beheer", "ICT-beheer", "IT-dienstverlening",
       "system integration", "systeemintegratie",
       "CRM", "HRM-systeem",
       "netwerk", "infrastructuur",
       "DevOps", "agile", "scrum",
       "toegangscontrolesysteem", "servicemanagementsysteem",
       "klantportaal", "datadistributie" >>

MEDIUM_KEYWORDS ==
    << "digitalisering", "digitale transformatie",
       "informatievoorziening", "informatiesysteem",
       "licentie", "software", "applicatie",
       "server", "storage", "backup",
       "helpdesk", "servicedesk", "support",
       "migratie", "implementatie",
       "advies", "consultancy",
       "project management", "projectmanagement",
       "telefonie", "telecom", "telecommunicatie",
       "website", "webapplicatie", "portaal",
       "database", "databank",
       "training ICT", "opleiding IT" >>

NEGATIVE_KEYWORDS ==
    << "bouw", "wegenbouw", "groenvoorziening", "grondwerk",
       "schoonmaak", "catering", "beveiliging gebouw",
       "medisch", "medicijn", "zorg", "huisarts",
       "transport", "vervoer", "busvervoer",
       "meubilair", "kantoormeubel",
       "drukwerk", "print" >>

IT_CPV_PREFIXES == << "72", "48", "302", "642" >>

\* re.compile(re.escape(kw), re.IGNORECASE): the keyword, case folded
compile_pattern(kw) == lower(kw)

_high_patterns == [i \in DOMAIN HIGH_KEYWORDS |-> compile_pattern(HIGH_KEYWORDS[i])]

_medium_patterns == [i \in DOMAIN MEDIUM_KEYWORDS |-> compile_pattern(MEDIUM_KEYWORDS[i])]

_negative_patterns == [i \in DOMAIN NEGATIVE_KEYWORDS |-> compile_pattern(NEGATIVE_KEYWORDS[i])]

\* pat.search(text) for a case-insensitive literal pattern; ltext is text case folded
pat_search(pat, ltext) == Contains(ltext, pat)

\* [kw for kw, pat in zip(keywords, patterns) if pat.search(text)]
keyword_matches(keywords, patterns, ltext) ==
    LET hit == [i \in DOMAIN keywords |-> pat_search(patterns[i], ltext)]
        F[i \in 0..Len(keywords)] ==
            IF i = 0 THEN << >>
            ELSE IF hit[i] THEN Append(F[i - 1], keywords[i]) ELSE F[i - 1]
    IN  F[Len(keywords)]

CPV_BONUS == 25

_cpv_bonus(cpv_codes) ==
    IF \E i \in DOMAIN cpv_codes : \E k \in DOMAIN IT_CPV_PREFIXES :
           StartsWith(SplitFirst(Get(cpv_codes[i], "code", ""), "-"), IT_CPV_PREFIXES[k])
    THEN CPV_BONUS
    ELSE 0

HIGH_WEIGHT == 15

MEDIUM_WEIGHT == 5

NEGATIVE_WEIGHT == 10

SCORE_MAX == 100

LEVEL_HOOG_MIN == 50

LEVEL_MIDDEN_MIN == 20

\* a faulty tier mapping: the thresholds taken as strict
relevance_level_strict(score) ==
    IF score > LEVEL_HOOG_MIN THEN "hoog"
    ELSE IF score > LEVEL_MIDDEN_MIN THEN "midden"
    ELSE "laag"

\* lines 93-98: the tier of a clamped score
relevance_level(score) ==
    IF score >= LEVEL_HOOG_MIN THEN "hoog"
    ELSE IF score >= LEVEL_MIDDEN_MIN THEN "midden"
    ELSE "laag"

\* a faulty clamp: the floor without the cap
clamp_score_no_cap(score) == Max2(0, score)

\* line 91: score = max(0, min(100, score))
clamp_score(score) == Max2(0, Min2(SCORE_MAX, score))

score_tender(title, description, cpv_codes) ==
    LET ltext == lower(Join2(title, description))
        high_matches == keyword_matches(HIGH_KEYWORDS, _high_patterns, ltext)
        medium_matches == keyword_matches(MEDIUM_KEYWORDS, _medium_patterns, ltext)
        negative_matches == keyword_matches(NEGATIVE_KEYWORDS, _negative_patterns, ltext)
        cpv_bonus == _cpv_bonus(cpv_codes)
        score == clamp_score(Len(high_matches) * HIGH_WEIGHT
                             + Len(medium_matches) * MEDIUM_WEIGHT
                             - Len(negative_matches) * NEGATIVE_WEIGHT
                             + cpv_bonus)
    IN  [score |-> score,
         level |-> relevance_level(score),
         matched_keywords |-> high_matches \o medium_matches,
         negative_keywords |-> negative_matches,
         cpv_bonus |-> cpv_bonus]

(***************************************************************************)
(* app/cpv_codes.py                                                        *)
(***************************************************************************)

CPV_CODE_SET ==
    { "72000000", "72100000", "72200000", "72210000", "72220000", "72230000",
      "72240000", "72250000", "72260000", "72300000", "72310000", "72320000",
      "72400000", "72500000", "72600000", "72700000", "72800000", "72900000",
      "48000000", "48100000", "48200000", "48300000", "48400000", "48500000",
      "48600000", "48700000", "48800000", "48900000",
      "30200000", "30210000", "30230000",
      "64200000", "64210000", "64220000",
      "79500000", "50300000" }

PARENT_PREFIX_LEN == 3

\* line 57: clean = code.split("-")[0].strip()
clean_code(code) == Strip(SplitFirst(code, "-"))

\* a faulty parent rule: the division (2 digits) instead of the 3-digit group
parent_match_division(clean) ==
    \E cpv \in CPV_CODE_SET :
        StartsWith(clean, SubSeq(cpv, 1, 2)) /\ EndsWith(cpv, "00000")

\* lines 61-64: some reference code ending in 00000 shares its first 3 digits
parent_match(clean) ==
    \E cpv \in CPV_CODE_SET :
        StartsWith(clean, SubSeq(cpv, 1, PARENT_PREFIX_LEN)) /\ EndsWith(cpv, "00000")

matches_cpv(code) ==
    LET clean == clean_code(code)
    IN  IF clean \in CPV_CODE_SET THEN TRUE ELSE parent_match(clean)

(***************************************************************************)
(* app/segments.py: segment detection                                      *)
(***************************************************************************)

\* the dict SEGMENTS in its declaration order (the order of .items())
SEGMENTS ==
    << [label |-> "Werkplek & Eindgebruikersbeheer",
        cpv |-> << "30200000", "30210000", "30230000" >>,
        strong |-> << "werkplekbeheer", "workplace management", "endpoint management",
                      "dwr", "digitale werkomgeving", "printbeheer", "printer",
                      "multifunctional", "mfp", "repro", "kantoorautomatisering",
                      "desktop beheer", "modern workplace", "microsoft 365", "m365",
                      "office 365" >>,
        weak |-> << "werkplek", "desktop", "laptop", "print", "endpoint",
                    "servicedesk", "telefonie" >>],
       [label |-> "Cloud & Hosting",
        cpv |-> << "72400000", "72410000" >>,
        strong |-> << "hosting", "iaas", "paas", "cloudmigratie", "vmware",
                      "virtualisatie", "compute", "storage", "backup", "datacenter",
                      "azure", "aws", "containerisatie", "hybride cloud" >>,
        weak |-> << "cloud", "saas", "as a service", "online platform",
                    "webapplicatie", "migratie" >>],
       [label |-> "Cybersecurity",
        cpv |-> << "48730000" >>,
        strong |-> << "soc", "siem", "penetratietest", "pentest",
                      "vulnerability scan", "vulnerability assessment",
                      "informatiebeveiliging", "cybersecurity",
                      "security operations", "soar", "dreigingsanalyse",
                      "incident response" >>,
        weak |-> << "security", "beveiliging", "toegangscontrole",
                    "access control", "identity", "iam", "authenticatie",
                    "autorisatie" >>],
       [label |-> "Netwerk & Connectiviteit",
        cpv |-> << "64200000", "32400000", "32420000" >>,
        strong |-> << "sd-wan", "lan", "wan", "firewall", "connectiviteit",
                      "glasvezel", "wifi", "wlan", "switching", "routing",
                      "vpn" >>,
        weak |-> << "netwerk", "telecom" >>],
       [label |-> "Applicatiebeheer",
        cpv |-> << "72260000" >>,
        strong |-> << "applicatiebeheer", "softwareimplementatie", "zaaksysteem",
                      "servicemanagement", "itsm", "erp-implementatie",
                      "crm-implementatie", "document management" >>,
        weak |-> << "systeem", "applicatie", "platform", "portaal",
                    "software", "erp", "crm", "hrm", "dms", "cms",
                    "ticketing", "informatiebeheer", "klantvolgsysteem",
                    "salarisadministratie" >>],
       [label |-> "Data & BI",
        cpv |-> << "48600000" >>,
        strong |-> << "datawarehouse", "business intelligence", "power bi",
                      "tableau", "datafundament", "data-integratie", "etl",
                      "analytics", "rapportage" >>,
        weak |-> << "data", "bi", "dashboard", "digitaal" >>] >>

FULL_SERVICE_LABEL == "Full-service"

FULL_SERVICE_THRESHOLD == 3

\* lines 83-89: some keyword, lower-cased, is a substring of the lower-cased text
_text_has_any(text, keywords) ==
    LET text_lower == lower(text)
    IN  \E i \in DOMAIN keywords : Contains(text_lower, lower(keywords[i]))

\* isinstance(cpv_entry, dict): an entry that is not a dict is modelled as the
\* record [str |-> str(cpv_entry)]
IsDict(cpv_entry) == "str" \notin DOMAIN cpv_entry

\* lines 95-96: the digits of one CPV entry
code_digits(cpv_entry) ==
    LET code == IF IsDict(cpv_entry) THEN Get(cpv_entry, "code", "") ELSE cpv_entry.str
    IN  RemoveChar(SplitFirst(code, "-"), " ")

\* lines 92-100
_cpv_matches(tender_cpv_codes, segment_cpv_prefixes) ==
    \E i \in DOMAIN tender_cpv_codes : \E k \in DOMAIN segment_cpv_prefixes :
        StartsWith(code_digits(tender_cpv_codes[i]), segment_cpv_prefixes[k])

\* a faulty decision: a CPV match counts only together with a weak keyword
segment_assigned_weak_gate(has_strong, has_weak, has_cpv) ==
    has_strong \/ (has_weak /\ has_cpv)

\* lines 118-122: the decision for one segment
segment_assigned(has_strong, has_weak, has_cpv) ==
    IF has_strong \/ has_cpv THEN TRUE
    ELSE IF has_weak /\ has_cpv THEN TRUE
    ELSE FALSE

\* a faulty synthesis: the label is added only above the threshold
with_full_service_above(matched) ==
    IF Len(matched) > FULL_SERVICE_THRESHOLD
    THEN Append(matched, FULL_SERVICE_LABEL)
    ELSE matched

\* lines 124-127
with_full_service(matched) ==
    IF Len(matched) >= FULL_SERVICE_THRESHOLD
    THEN Append(matched, FULL_SERVICE_LABEL)
    ELSE matched

detect_segments(naam, beschrijving, cpv_codes) ==
    LET text == Join2(naam, beschrijving)
        hit == [i \in DOMAIN SEGMENTS |->
                   segment_assigned(_text_has_any(text, SEGMENTS[i].strong),
                                    _text_has_any(text, SEGMENTS[i].weak),
                                    _cpv_matches(cpv_codes, SEGMENTS[i].cpv))]
        F[i \in 0..Len(SEGMENTS)] ==
            IF i = 0 THEN << >>
            ELSE IF hit[i] THEN Append(F[i - 1], SEGMENTS[i].label) ELSE F[i - 1]
    IN  with_full_service(F[Len(SEGMENTS)])

(***************************************************************************)
(* main.py: the matcher of the single-file variant                         *)
(***************************************************************************)

SHORT_KEYWORD_LEN == 4

\* \w of the re module, on the characters of the model's texts
IsWordChar(c) ==
    \/ \E i \in 1..Len(LowerAlpha) : Chr(LowerAlpha, i) = c
    \/ \E i \in 1..Len(UpperAlpha) : Chr(UpperAlpha, i) = c
    \/ \E i \in 1..Len(Digits) : Chr(Digits, i) = c
    \/ c = "_"

\* whether position i of s (1..Len(s)) holds a word character
WordAt(s, i) == i >= 1 /\ i <= Len(s) /\ IsWordChar(Chr(s, i))

\* \b between positions i-1 and i of s
WordBoundary(s, i) == WordAt(s, i - 1) # WordAt(s, i)

\* re.search(r'\b' + re.escape(kw) + r'\b', text)
search_whole_word(kw, text) ==
    \E i \in 1..(Len(text) - Len(kw) + 1) :
        /\ At(text, i, kw)
        /\ WordBoundary(text, i)
        /\ WordBoundary(text, i + Len(kw))

\* lines 523-528
keyword_in_text(kw, text) ==
    LET kw_lower == lower(kw)
    IN  IF Len(kw_lower) <= SHORT_KEYWORD_LEN
        THEN search_whole_word(kw_lower, text)
        ELSE Contains(text, kw_lower)

(***************************************************************************)
(* app/segments.py: client classification and expected requirements        *)
(***************************************************************************)

\* the list OPDRACHTGEVER_RULES in its declared order
OPDRACHTGEVER_RULES ==
    << [category |-> "RIJK_VITAAL", keywords |-> << "rijkswaterstaat", "prorail" >>],
       [category |-> "GR",
        keywords |-> << "gemeenschappelijke regeling", "gemeenschappelijk regeling",
                        "samenwerkingsverband" >>],
       [category |-> "ZORG",
        keywords |-> << "ziekenhuis", "ggz", "ggd", "zorggroep", "huisartsen",
                        "medisch centrum", "umc " >>],
       [category |-> "RIJK",
        keywords |-> << "ministerie", "politie", "raad van state", "hoge raad",
                        "eerste kamer", "tweede kamer", "rekenkamer" >>],
       [category |-> "ZBO",
        keywords |-> << "uwv", "svb", "duo", "belastingdienst", "rivm", "rvo",
                        "rdw", "dienst wegverkeer", "kadaster", "knmi", "cbs",
                        "autoriteit persoonsgegevens" >>],
       [category |-> "WATERSCHAP",
        keywords |-> << "waterschap", "hoogheemraadschap", "wetterskip" >>],
       [category |-> "GEMEENTE", keywords |-> << "gemeente" >>],
       [category |-> "PROVINCIE", keywords |-> << "provincie" >>],
       [category |-> "ONDERWIJS",
        keywords |-> << "universiteit", "hogeschool", " roc ", "lyceum",
                        "scholengemeenschap" >>],
       [category |-> "PUBLIEK_SOCIAAL",
        keywords |-> << "emco", "sociale werkvoorziening", "sw-bedrijf" >>] >>

\* [a-z] after case folding: what [A-Z] matches under (?i)
IsLetter(c) == \E i \in 1..Len(LowerAlpha) : Chr(LowerAlpha, i) = c

\* \s on the characters of the model's texts
IsSpace(c) == c = " "

\* _RWS_PATTERN = (?i)\bRWS\b, searched in the name
rws_search(name) == search_whole_word("rws", lower(name))

\* _GR_PREFIX = (?i)\bGR\s+[A-Z], searched in the name
gr_prefix_search(name) ==
    LET l == lower(name)
    IN  \E i \in 1..(Len(l) - 1) :
            /\ At(l, i, "gr")
            /\ WordBoundary(l, i)
            /\ \E n \in 1..Len(l) :
                  /\ i + 2 + n <= Len(l)
                  /\ \A k \in (i + 2)..(i + 1 + n) : IsSpace(Chr(l, k))
                  /\ IsLetter(Chr(l, i + 2 + n))

\* a then anything (no line break) then b
followed_by(l, a, b) ==
    \E i \in 1..(Len(l) - Len(a) + 1), j \in 1..(Len(l) - Len(b) + 1) :
        At(l, i, a) /\ At(l, j, b) /\ j >= i + Len(a)

\* _STICHTING_ONDERWIJS = (?i)stichting.*onderwijs|onderwijs.*stichting
stichting_onderwijs_search(name) ==
    LET l == lower(name)
    IN  followed_by(l, "stichting", "onderwijs") \/ followed_by(l, "onderwijs", "stichting")

\* lines 366-371: the first rule with a keyword in the lower-cased name
generic_rules(name_lower) ==
    LET hit == {r \in DOMAIN OPDRACHTGEVER_RULES :
                   \E k \in DOMAIN OPDRACHTGEVER_RULES[r].keywords :
                       Contains(name_lower, lower(OPDRACHTGEVER_RULES[r].keywords[k]))}
    IN  IF hit = {} THEN "OVERIG"
        ELSE OPDRACHTGEVER_RULES[CHOOSE r \in hit : \A q \in hit : r <= q].category

\* a faulty order: the keyword rules are tried before the special patterns
classify_opdrachtgever_rules_first(opdrachtgever) ==
    IF generic_rules(lower(opdrachtgever)) # "OVERIG"
    THEN generic_rules(lower(opdrachtgever))
    ELSE IF rws_search(opdrachtgever) THEN "RIJK_VITAAL"
    ELSE IF gr_prefix_search(opdrachtgever) THEN "GR"
    ELSE IF stichting_onderwijs_search(opdrachtgever) THEN "ONDERWIJS"
    ELSE "OVERIG"

classify_opdrachtgever(opdrachtgever) ==
    IF rws_search(opdrachtgever) THEN "RIJK_VITAAL"
    ELSE IF gr_prefix_search(opdrachtgever) THEN "GR"
    ELSE IF stichting_onderwijs_search(opdrachtgever) THEN "ONDERWIJS"
    ELSE generic_rules(lower(opdrachtgever))

LEVEL_PRIORITY ==
    [l \in {"verplicht", "waarschijnlijk", "gebruikelijk", "mogelijk"} |->
        CASE l = "verplicht" -> 4
          [] l = "waarschijnlijk" -> 3
          [] l = "gebruikelijk" -> 2
          [] l = "mogelijk" -> 1]

Req(name, level, category) == [name |-> name, category |-> category, level |-> level]

GovernmentRequirements ==
    << Req("BIO", "verplicht", "security"),
       Req("ISO 27001", "waarschijnlijk", "security"),
       Req("SROI", "gebruikelijk", "social") >>

CentralRequirements ==
    << Req("BIO", "verplicht", "security"),
       Req("ISO 27001", "waarschijnlijk", "security"),
       Req("DigiD", "mogelijk", "security"),
       Req("ISAE 3402", "mogelijk", "quality") >>

\* the dict EXPECTED_REQUIREMENTS
EXPECTED_REQUIREMENTS ==
    [c \in {"GEMEENTE", "PROVINCIE", "WATERSCHAP", "GR", "RIJK", "ZBO", "RIJK_VITAAL",
            "ZORG", "ONDERWIJS", "PUBLIEK_SOCIAAL"} |->
        CASE c \in {"GEMEENTE", "PROVINCIE", "WATERSCHAP", "GR"} -> GovernmentRequirements
          [] c \in {"RIJK", "ZBO"} -> CentralRequirements
          [] c = "RIJK_VITAAL" ->
                << Req("BIO", "verplicht", "security"),
                   Req("ISO 27001", "waarschijnlijk", "security"),
                   Req("ISAE 3402", "waarschijnlijk", "quality"),
                   Req("NIS2", "waarschijnlijk", "security") >>
          [] c = "ZORG" ->
                << Req("NEN 7510", "verplicht", "security"),
                   Req("ISO 27001", "waarschijnlijk", "security"),
                   Req("BIO", "mogelijk", "security") >>
          [] c = "ONDERWIJS" ->
                << Req("ISO 27001", "mogelijk", "security"),
                   Req("AVG/DPIA", "waarschijnlijk", "security") >>
          [] c = "PUBLIEK_SOCIAAL" ->
                << Req("BIO", "waarschijnlijk", "security"),
                   Req("PSO", "waarschijnlijk", "social"),
                   Req("SROI", "gebruikelijk", "social") >>]

\* result[key] = value on an insertion-ordered dict kept as a sequence of values
\* keyed by their name: an existing key keeps its place
DictSet(result, value) ==
    IF \E i \in DOMAIN result : result[i].name = value.name
    THEN [i \in DOMAIN result |-> IF result[i].name = value.name THEN value ELSE result[i]]
    ELSE Append(result, value)

\* lines 386-392: the requirements of the category, keyed by name
build_result(reqs) ==
    LET F[i \in 0..Len(reqs)] ==
            IF i = 0 THEN << >>
            ELSE DictSet(F[i - 1], Req(reqs[i].name, reqs[i].level, reqs[i].category))
    IN  F[Len(reqs)]

\* a faulty upgrade: ISO 27001 is appended without looking for the entry of
\* the table
cyber_upgrade_appends(result, category) ==
    IF category # "OVERIG"
    THEN Append(result, Req("ISO 27001", "waarschijnlijk", "security"))
    ELSE result

\* lines 394-405: the Cybersecurity upgrade of ISO 27001
cyber_upgrade(result, category) ==
    IF \E i \in DOMAIN result : result[i].name = "ISO 27001"
    THEN [i \in DOMAIN result |->
             IF /\ result[i].name = "ISO 27001"
                /\ LEVEL_PRIORITY[result[i].level] < LEVEL_PRIORITY["waarschijnlijk"]
             THEN [result[i] EXCEPT !.level = "waarschijnlijk"]
             ELSE result[i]]
    ELSE IF category # "OVERIG"
    THEN Append(result, Req("ISO 27001", "waarschijnlijk", "security"))
    ELSE result

get_expected_requirements(opdrachtgever, segments) ==
    LET category == classify_opdrachtgever(opdrachtgever)
        reqs == IF category \in DOMAIN EXPECTED_REQUIREMENTS
                THEN EXPECTED_REQUIREMENTS[category] ELSE << >>
        result == build_result(reqs)
    IN  IF \E i \in DOMAIN segments : segments[i] = "Cybersecurity"
        THEN cyber_upgrade(result, category)
        ELSE result

(***************************************************************************)
(* app/segments.py: MSP-fit score                                          *)
(***************************************************************************)

_MSP_INFRA ==
    << "compute", "storage", "backup", "datacenter", "werkplekbeheer",
       "endpoint management", "sd-wan", "firewall", "connectiviteit",
       "dwr", "digitale werkomgeving", "cloudmigratie" >>

_MSP_MANAGED ==
    << "beheer en onderhoud", "managed service", "hosting en beheer",
       "monitoring", "as a service" >>

_SOFTWARE_DELIVERY ==
    << "erp", "hrm", "e-hrm", "salarisverwerking", "salarisadministratie",
       "salaris-", "financieel systeem", "financieel pakket",
       "woz applicatie", "woz-applicatie", "woz waardering",
       "zaaksysteem", "klantvolgsysteem", "promotie volgsysteem",
       "financieel applicatie" >>

_PHYSICAL_INFRA ==
    << "glasvezel", "civiel", "toegangscontrole", "fysieke beveiliging",
       "meettrein", "voertuigvolg", "audiovisuele middelen",
       "touchscreen", "reizigerstrein", "beeldmateriaal",
       "telsysteem", "laboratorium" >>

_NICHE_SOFTWARE ==
    << "arcgis", "safe exam", "splunk licentie", "epic connect",
       "afas", "exact online", "cris" >>

_MSP_CLIENT_TYPES == {"GEMEENTE", "PROVINCIE", "WATERSCHAP", "GR"}

MSP_SERVICES_BONUS == 10

MSP_INFRA_BONUS == 15

MSP_MANAGED_BONUS == 15

MSP_CLIENT_BONUS == 10

MSP_PENALTY == 25

MSP_RELEVANT_ABOVE == 20

\* an optional value: << >> is None, << v >> is the value v
None == << >>

Some(v) == << v >>

\* a faulty tier: 20 already counts as relevant
msp_fit_level_from_20(score) ==
    IF score >= MSP_RELEVANT_ABOVE THEN "MSP-relevant"
    ELSE IF score >= 0 THEN "Mogelijk relevant"
    ELSE "Niet MSP"

\* lines 215-220
msp_fit_level(score) ==
    IF score > MSP_RELEVANT_ABOVE THEN "MSP-relevant"
    ELSE IF score >= 0 THEN "Mogelijk relevant"
    ELSE "Niet MSP"

\* lines 172-222; type_opdracht is an optional string
score_msp_fit(tender_naam, beschrijving, type_opdracht, opdrachtgever_type, segments) ==
    LET text == lower(tender_naam \o " " \o beschrijving)
        score ==
              (IF /\ type_opdracht # None
                  /\ type_opdracht[1] # ""
                  /\ Contains(lower(type_opdracht[1]), "diensten")
               THEN MSP_SERVICES_BONUS ELSE 0)
            + (IF _text_has_any(text, _MSP_INFRA) THEN MSP_INFRA_BONUS ELSE 0)
            + (IF _text_has_any(text, _MSP_MANAGED) THEN MSP_MANAGED_BONUS ELSE 0)
            + (IF opdrachtgever_type \in _MSP_CLIENT_TYPES THEN MSP_CLIENT_BONUS ELSE 0)
            - (IF _text_has_any(text, _SOFTWARE_DELIVERY) THEN MSP_PENALTY ELSE 0)
            - (IF _text_has_any(text, _PHYSICAL_INFRA) THEN MSP_PENALTY ELSE 0)
            - (IF _text_has_any(text, _NICHE_SOFTWARE) THEN MSP_PENALTY ELSE 0)
    IN  [score |-> score, level |-> msp_fit_level(score)]

(***************************************************************************)
(* app/segments.py: certification detection                                *)
(***************************************************************************)

\* sub at position i of s, for any i
HasAt(s, i, sub) == i >= 1 /\ i + Len(sub) - 1 <= Len(s) /\ At(s, i, sub)

\* the forms of the patterns of the certification tables, all under (?i):
\*   sep     a[\s\-]?b, with \b before and after where wb is set
\*   word    \ba\b
\*   spaced  a\s+b, with \b before where wb is set
\*   sub     a
\*   then    a.*b
Pat(kind, a, b, wb) == [kind |-> kind, a |-> a, b |-> b, wb |-> wb]

sep_search(l, a, b, wb) ==
    \E i \in 1..Len(l), g \in {0, 1} :
        /\ HasAt(l, i, a)
        /\ wb => WordBoundary(l, i)
        /\ g = 1 => /\ i + Len(a) <= Len(l)
                    /\ \/ IsSpace(Chr(l, i + Len(a)))
                       \/ Chr(l, i + Len(a)) = "-"
        /\ HasAt(l, i + Len(a) + g, b)
        /\ wb => WordBoundary(l, i + Len(a) + g + Len(b))

spaced_search(l, a, b, wb) ==
    \E i \in 1..Len(l), n \in 1..Len(l) :
        /\ HasAt(l, i, a)
        /\ wb => WordBoundary(l, i)
        /\ i + Len(a) + n - 1 <= Len(l)
        /\ \A k \in (i + Len(a))..(i + Len(a) + n - 1) : IsSpace(Chr(l, k))
        /\ HasAt(l, i + Len(a) + n, b)

\* re.search(pattern, text) for one pattern form
pat_form_search(p, text) ==
    LET l == lower(text)
    IN  CASE p.kind = "sep" -> sep_search(l, p.a, p.b, p.wb)
          [] p.kind = "word" -> search_whole_word(p.a, l)
          [] p.kind = "spaced" -> spaced_search(l, p.a, p.b, p.wb)
          [] p.kind = "sub" -> Contains(l, p.a)
          [] p.kind = "then" -> followed_by(l, p.a, p.b)

\* a pattern is the alternation of its forms
alt_search(pattern, text) == \E k \in DOMAIN pattern : pat_form_search(pattern[k], text)

Cert(name, pattern, category) == [name |-> name, pattern |-> pattern, category |-> category]

CERTIFICATIONS ==
    << Cert("ISO 27001", << Pat("sep", "iso", "27001", FALSE) >>, "security"),
       Cert("ISO 9001", << Pat("sep", "iso", "9001", FALSE) >>, "quality"),
       Cert("ISO 14001", << Pat("sep", "iso", "14001", FALSE) >>, "other"),
       Cert("NEN 7510", << Pat("sep", "nen", "7510", FALSE) >>, "security"),
       Cert("ISAE 3402", << Pat("sep", "isae", "3402", FALSE) >>, "quality"),
       Cert("SOC 2", << Pat("sep", "soc", "2", TRUE) >>, "security"),
       Cert("BIO", << Pat("word", "bio", "", TRUE),
                      Pat("spaced", "baseline", "informatiebeveiliging", FALSE) >>,
            "security"),
       Cert("DigiD", << Pat("word", "digid", "", TRUE) >>, "security"),
       Cert("Wpg", << Pat("word", "wpg", "", TRUE),
                      Pat("spaced", "wet", "politiegegeven", TRUE) >>, "other"),
       Cert("NIS2", << Pat("sep", "nis", "2", TRUE) >>, "security"),
       Cert("DORA", << Pat("word", "dora", "", TRUE) >>, "security"),
       Cert("PSO", << Pat("word", "pso", "", TRUE),
                      Pat("spaced", "prestatieladder", "social", FALSE),
                      Pat("spaced", "socialer", "ondernemen", FALSE) >>, "social"),
       Cert("CO2-prestatieladder", << Pat("sep", "co2", "prestatieladder", FALSE) >>,
            "social"),
       Cert("SROI", << Pat("word", "sroi", "", TRUE),
                       Pat("spaced", "social", "return", FALSE) >>, "social") >>

GovernmentWords == << "overheid", "gemeente", "provincie", "rijks", "waterschap" >>

\* each implied certification excludes its own explicit name
IMPLIED_CERTIFICATIONS ==
    << Cert("ISO 27001", << Pat("sub", "informatiebeveilig", "", FALSE) >>, "security"),
       Cert("NEN 7510", << Pat("then", "zorg", "informatiebeveilig", FALSE),
                           Pat("then", "informatiebeveilig", "zorg", FALSE) >>,
            "security"),
       Cert("BIO",
            [k \in 1..Len(GovernmentWords) |->
                Pat("then", "informatiebeveilig", GovernmentWords[k], FALSE)]
            \o [k \in 1..Len(GovernmentWords) |->
                Pat("then", GovernmentWords[k], "informatiebeveilig", FALSE)],
            "security") >>

\* lines 694-701: the explicit hits in table order
explicit_certifications(text) ==
    LET F[i \in 0..Len(CERTIFICATIONS)] ==
            IF i = 0 THEN << >>
            ELSE IF alt_search(CERTIFICATIONS[i].pattern, text)
                 THEN Append(F[i - 1], [name |-> CERTIFICATIONS[i].name,
                                        category |-> CERTIFICATIONS[i].category,
                                        implied |-> FALSE])
                 ELSE F[i - 1]
    IN  F[Len(CERTIFICATIONS)]

\* lines 704-720 without the skips of lines 705-713: an implied hit is
\* reported even when its name was found explicitly
implied_certifications_unfiltered(text, explicit_names) ==
    LET F[i \in 0..Len(IMPLIED_CERTIFICATIONS)] ==
            IF i = 0 THEN << >>
            ELSE IF alt_search(IMPLIED_CERTIFICATIONS[i].pattern, text)
                 THEN Append(F[i - 1], [name |-> IMPLIED_CERTIFICATIONS[i].name \o "?",
                                        category |-> IMPLIED_CERTIFICATIONS[i].category,
                                        implied |-> TRUE])
                 ELSE F[i - 1]
    IN  F[Len(IMPLIED_CERTIFICATIONS)]

\* lines 704-720: the implied hits, each skipped when its name (its excludes
\* entry) was found before
implied_certifications(text, explicit_names) ==
    LET F[i \in 0..Len(IMPLIED_CERTIFICATIONS)] ==
            IF i = 0 THEN << >>
            ELSE IF /\ IMPLIED_CERTIFICATIONS[i].name \notin explicit_names
                    /\ IMPLIED_CERTIFICATIONS[i].name \notin
                          {F[i - 1][k].found : k \in DOMAIN F[i - 1]}
                    /\ alt_search(IMPLIED_CERTIFICATIONS[i].pattern, text)
                 THEN Append(F[i - 1], [name |-> IMPLIED_CERTIFICATIONS[i].name \o "?",
                                        category |-> IMPLIED_CERTIFICATIONS[i].category,
                                        implied |-> TRUE,
                                        found |-> IMPLIED_CERTIFICATIONS[i].name])
                 ELSE F[i - 1]
    IN  [k \in DOMAIN F[Len(IMPLIED_CERTIFICATIONS)] |->
            [name |-> F[Len(IMPLIED_CERTIFICATIONS)][k].name,
             category |-> F[Len(IMPLIED_CERTIFICATIONS)][k].category,
             implied |-> TRUE]]

\* lines 683-722
detect_certifications(naam, beschrijving) ==
    LET text == naam \o " " \o beschrijving
        explicit == explicit_certifications(text)
    IN  explicit \o implied_certifications(text, {explicit[k].name : k \in DOMAIN explicit})

(***************************************************************************)
(* main.py: MSP-fit score of the single-file variant                       *)
(***************************************************************************)

APP_SOFTWARE_INDICATORS ==
    << "salarisverwerking", "salarissoftware", "salaris applicatie", "salarissysteem",
       "e-hrm", "hrm-systeem", "hrm systeem", "personeelsinformatie",
       "woz-applicatie", "woz applicatie", "woz taxatie", "woz waardering",
       "financieel pakket", "financiele applicatie",
       "basisregistratie", "burgerzaken", "vergunningen",
       "klantvolgsysteem", "clientvolgsysteem", "cliëntvolgsysteem",
       "sociaal domein software", "jeugdhulp applicatie" >>

PHYSICAL_INFRA_INDICATORS ==
    << "meettrein", "civiel", "graafwerk", "aanleg glasvezel",
       "straatverlichting", "verkeersregelinstallatie",
       "fysieke toegangscontrole", "tourniquets", "slagboom",
       "camerabewaking", "cctv", "installatie gebouw",
       "elektrotechnisch", "werktuigbouwkundig" >>

\* the list msp_core of lines 598-603
msp_core ==
    << "werkplekbeheer", "werkplek", "compute", "storage", "backup",
       "hosting", "cloud", "datacenter", "infrastructuur", "connectiviteit",
       "managed service", "servicedesk", "helpdesk", "endpoint",
       "digitale werkomgeving", "disaster recovery" >>

\* any(kw in combined for kw in keywords)
any_in(keywords, combined) == \E i \in DOMAIN keywords : Contains(combined, keywords[i])

FIT_SERVICES_BONUS == 20

FIT_CORE_BONUS == 15

FIT_CLIENT_BONUS == 10

FIT_SEGMENTS_BONUS == 5

FIT_SEGMENTS_MIN == 2

FIT_APP_PENALTY == 25

FIT_PHYSICAL_PENALTY == 10

FIT_SUPPLIES_PENALTY == 10

\* lines 620-625
msp_fit_label(score) ==
    IF score > 20 THEN "MSP-relevant"
    ELSE IF score >= 0 THEN "Mogelijk relevant"
    ELSE "Niet MSP"

\* lines 583-626; the score, a float that starts at 0.0 and only takes whole
\* numbers, is kept as an integer; the result is the pair (score, label)
calculate_msp_fit(tender, og_type, segmenten) ==
    LET naam == lower(Get(tender, "aanbestedingNaam", ""))
        beschrijving == lower(Get(tender, "opdrachtBeschrijving", ""))
        combined == naam \o " " \o beschrijving
        type_opdracht == Get(Get(tender, "typeOpdracht", << >>), "code", "")
        is_app_software == any_in(APP_SOFTWARE_INDICATORS, combined)
        is_physical == any_in(PHYSICAL_INFRA_INDICATORS, combined)
        real_segs == SelectSeq(segmenten, LAMBDA x : x # "Full-service IT-partner")
        score ==
              (IF type_opdracht = "D" THEN FIT_SERVICES_BONUS ELSE 0)
            + (IF ~is_app_software /\ any_in(msp_core, combined)
               THEN FIT_CORE_BONUS ELSE 0)
            + (IF og_type \in {"GEMEENTE", "PROVINCIE", "WATERSCHAP", "GR"}
               THEN FIT_CLIENT_BONUS ELSE 0)
            + (IF Len(real_segs) >= FIT_SEGMENTS_MIN THEN FIT_SEGMENTS_BONUS ELSE 0)
            - (IF is_app_software THEN FIT_APP_PENALTY ELSE 0)
            - (IF is_physical THEN FIT_PHYSICAL_PENALTY ELSE 0)
            - (IF type_opdracht = "L" THEN FIT_SUPPLIES_PENALTY ELSE 0)
    IN  << score, msp_fit_label(score) >>

(***************************************************************************)
(* app/segments.py: value estimate                                         *)
(***************************************************************************)

EU_THRESHOLD_DIENSTEN == 221000

EU_THRESHOLD_WERKEN == 5538000

_SEGMENT_CATEGORIES ==
    [s \in {"Werkplek & Eindgebruikersbeheer", "Cloud & Hosting",
            "Netwerk & Connectiviteit", "Cybersecurity", "Applicatiebeheer",
            "Data & BI", "Full-service"} |->
        IF s \in {"Applicatiebeheer", "Data & BI"} THEN "applicatie" ELSE "infra"]

\* the dict _VALUE_MATRIX: (opdrachtgever_type, category) -> (min, max)
_VALUE_MATRIX ==
    [key \in {"GEMEENTE", "GR", "PROVINCIE", "WATERSCHAP", "RIJK", "ZBO",
              "RIJK_VITAAL", "ONDERWIJS", "PUBLIEK_SOCIAAL", "ZORG"}
             \X {"infra", "applicatie"} |->
        CASE key = << "GEMEENTE", "infra" >> -> << 200000, 1000000 >>
          [] key = << "GEMEENTE", "applicatie" >> -> << 100000, 500000 >>
          [] key[1] \in {"GR", "PROVINCIE"} -> << 300000, 2000000 >>
          [] key[1] = "WATERSCHAP" -> << 200000, 1000000 >>
          [] key[1] \in {"RIJK", "ZBO", "RIJK_VITAAL"} -> << 500000, 5000000 >>
          [] key[1] \in {"ONDERWIJS", "PUBLIEK_SOCIAAL"} -> << 50000, 300000 >>
          [] key[1] = "ZORG" -> << 100000, 1000000 >>]

RECURSIVE IntToStr(_)
\* str(n) for a natural number n
IntToStr(n) ==
    IF n < 10 THEN Chr(Digits, n + 1)
    ELSE IntToStr(n \div 10) \o Chr(Digits, (n % 10) + 1)

\* round(x / unit), halves up (no value the estimate formats is a half)
RoundDiv(x, unit) == (2 * x + unit) \div (2 * unit)

\* lines 451-463: '200K', '1M', '5.5M'
_format_eur(val) ==
    IF val >= 1000000
    THEN IF val % 1000000 = 0 THEN IntToStr(val \div 1000000) \o "M"
         ELSE LET tenths == RoundDiv(val, 100000)
              IN  IF tenths % 10 = 0 THEN IntToStr(tenths \div 10) \o "M"
                  ELSE IntToStr(tenths \div 10) \o "." \o IntToStr(tenths % 10) \o "M"
    ELSE IF val >= 1000
    THEN IF val % 1000 = 0 THEN IntToStr(val \div 1000) \o "K"
         ELSE IntToStr(RoundDiv(val, 1000)) \o "K"
    ELSE IntToStr(val)

UNKNOWN_VALUE ==
    [min_value |-> None, max_value |-> None, display |-> "?", confidence |-> "laag"]

EU_WIDEN_FACTOR == 3

MinOf(S) == CHOOSE x \in S : \A y \in S : x <= y

MaxOf(S) == CHOOSE x \in S : \A y \in S : x >= y

\* line 515 without the widening: the maximum of the table is kept
widen_max_never(est_min, est_max) == est_max

\* lines 514-515
widen_max(est_min, est_max) ==
    IF est_max < est_min THEN est_min * EU_WIDEN_FACTOR ELSE est_max

\* lines 507-512; type_opdracht is an optional string
eu_floor(type_opdracht) ==
    LET type_lower == lower(IF type_opdracht = None THEN "" ELSE type_opdracht[1])
    IN  IF Contains(type_lower, "werken") THEN EU_THRESHOLD_WERKEN
        ELSE EU_THRESHOLD_DIENSTEN

\* lines 466-531; min_value and max_value are optional numbers
estimate_value(europees, type_opdracht, opdrachtgever_type, segments, naam, beschrijving) ==
    LET seg_cats == {_SEGMENT_CATEGORIES[segments[i]] :
                        i \in {j \in DOMAIN segments : segments[j] \in DOMAIN _SEGMENT_CATEGORIES}}
        cats == IF seg_cats = {} THEN {"infra"} ELSE seg_cats
        keys == {<< opdrachtgever_type, cat >> : cat \in cats} \cap DOMAIN _VALUE_MATRIX
        min_vals == {_VALUE_MATRIX[k][1] : k \in keys}
        max_vals == {_VALUE_MATRIX[k][2] : k \in keys}
        table_min == MinOf(min_vals)
        table_max == MaxOf(max_vals)
        est_min == IF europees THEN Max2(table_min, eu_floor(type_opdracht)) ELSE table_min
        est_max == IF europees THEN widen_max(est_min, table_max) ELSE table_max
        confidence == IF europees /\ seg_cats # {} THEN "hoog"
                      ELSE IF seg_cats # {} THEN "midden"
                      ELSE "laag"
    IN  IF seg_cats = {} /\ opdrachtgever_type = "OVERIG" THEN UNKNOWN_VALUE
        ELSE IF min_vals = {} THEN UNKNOWN_VALUE
        ELSE [min_value |-> Some(est_min), max_value |-> Some(est_max),
              display |-> "€" \o _format_eur(est_min) \o "-" \o _format_eur(est_max),
              confidence |-> confidence]

(***************************************************************************)
(* main.py: value estimate of the single-file variant                      *)
(***************************************************************************)

\* lines 632-639; waarde is an optional number
format_bedrag(waarde) ==
    IF waarde = None THEN "?"
    ELSE IF waarde[1] >= 1000000
    THEN LET tenths == RoundDiv(waarde[1], 100000)
         IN  "€" \o IntToStr(tenths \div 10) \o "." \o IntToStr(tenths % 10) \o "M"
    ELSE IF waarde[1] >= 1000 THEN "€" \o IntToStr(waarde[1] \div 1000) \o "K"
    ELSE "€" \o IntToStr(waarde[1])

\* a JSON value of the raw record is a number [num |-> n] or a string
\* [str |-> s]; bool(value)
Truthy(opt) ==
    /\ opt # None
    /\ IF "num" \in DOMAIN opt[1] THEN opt[1].num # 0 ELSE opt[1].str # ""

\* dict.get(key) as an optional value
GetOpt(d, key) == IF key \in DOMAIN d THEN Some(d[key]) ELSE None

\* line 642
geraamd_of(tender) ==
    IF Truthy(GetOpt(tender, "geraamdeWaarde")) THEN GetOpt(tender, "geraamdeWaarde")
    ELSE GetOpt(Get(tender, "aanbestedingDetail", << >>), "geraamdeWaarde")

SCHAT_INFRA_KEYWORDS ==
    << "compute", "storage", "hosting", "datacenter", "cloud",
       "infrastructuur", "connectiviteit", "werkplekbeheer" >>

SCHAT_EU_FLOOR == 221000

\* lines 656-674: the range of the client type, None when it has none
schat_range(og_type, is_infra, is_app) ==
    CASE og_type = "GEMEENTE" ->
            IF is_infra THEN Some(<< 200000, 1000000 >>)
            ELSE IF is_app THEN Some(<< 100000, 500000 >>)
            ELSE Some(<< 100000, 750000 >>)
      [] og_type = "GR" -> Some(<< 300000, 2000000 >>)
      [] og_type \in {"RIJK", "RIJK_VITAAL", "ZBO"} -> Some(<< 500000, 5000000 >>)
      [] og_type = "ZORG" -> Some(<< 100000, 500000 >>)
      [] og_type = "ONDERWIJS" -> Some(<< 50000, 300000 >>)
      [] og_type = "PUBLIEK_SOCIAAL" -> Some(<< 100000, 500000 >>)
      [] og_type \in {"PROVINCIE", "WATERSCHAP"} -> Some(<< 200000, 1500000 >>)
      [] OTHER -> None

\* lines 641-685; the result is the tuple (min, max, bron, weergave) with
\* optional numbers; stated values are whole numbers; the greater-or-equal
\* sign of the last display is written ">="
schat_waarde(tender, og_type, segmenten) ==
    LET geraamd == geraamd_of(tender)
        europees == Get(tender, "europees", FALSE)
        combined == lower(Get(tender, "aanbestedingNaam", "")) \o " "
                        \o lower(Get(tender, "opdrachtBeschrijving", ""))
        range == schat_range(og_type, any_in(SCHAT_INFRA_KEYWORDS, combined),
                             any_in(APP_SOFTWARE_INDICATORS, combined))
        v_min == IF europees THEN Max2(range[1][1], SCHAT_EU_FLOOR) ELSE range[1][1]
    IN  IF Truthy(geraamd) /\ "num" \in DOMAIN geraamd[1] /\ geraamd[1].num > 0
        THEN << Some(geraamd[1].num), Some(geraamd[1].num), "exact",
                format_bedrag(Some(geraamd[1].num)) >>
        ELSE IF range # None
        THEN << Some(v_min), Some(range[1][2]), "bandbreedte",
                format_bedrag(Some(v_min)) \o "-" \o format_bedrag(Some(range[1][2])) >>
        ELSE IF europees
        THEN << Some(SCHAT_EU_FLOOR), None, "bandbreedte", ">=€221K" >>
        ELSE << None, None, "onbekend", "?" >>

(***************************************************************************)
(* main.py: expected requirements of the single-file variant               *)
(***************************************************************************)

Lvl(name, level) == [name |-> name, level |-> level]

\* the dict VERWACHTE_VEREISTEN, each value in its insertion order
VERWACHTE_VEREISTEN ==
    [t \in {"GEMEENTE", "GR", "PROVINCIE", "WATERSCHAP", "RIJK", "RIJK_VITAAL", "ZBO",
            "ZORG", "ONDERWIJS", "PUBLIEK_SOCIAAL"} |->
        CASE t \in {"GEMEENTE", "GR"} ->
                << Lvl("BIO", "verplicht"), Lvl("ISO 27001", "waarschijnlijk"),
                   Lvl("SROI", "gebruikelijk") >>
          [] t \in {"PROVINCIE", "WATERSCHAP"} ->
                << Lvl("BIO", "verplicht"), Lvl("ISO 27001", "waarschijnlijk") >>
          [] t \in {"RIJK", "ZBO"} ->
                << Lvl("BIO", "verplicht"), Lvl("ISO 27001", "waarschijnlijk"),
                   Lvl("DigiD", "mogelijk"), Lvl("ISAE 3402", "mogelijk") >>
          [] t = "RIJK_VITAAL" ->
                << Lvl("BIO", "verplicht"), Lvl("ISO 27001", "waarschijnlijk"),
                   Lvl("ISAE 3402", "waarschijnlijk"), Lvl("NIS2", "waarschijnlijk") >>
          [] t = "ZORG" ->
                << Lvl("NEN 7510", "verplicht"), Lvl("ISO 27001", "waarschijnlijk"),
                   Lvl("BIO", "mogelijk") >>
          [] t = "ONDERWIJS" -> << Lvl("ISO 27001", "mogelijk") >>
          [] t = "PUBLIEK_SOCIAAL" ->
                << Lvl("BIO", "waarschijnlijk"), Lvl("PSO", "waarschijnlijk"),
                   Lvl("SROI", "gebruikelijk") >>]

\* lines 572-577
get_verwachte_vereisten(og_type, segmenten) ==
    LET vereisten == IF og_type \in DOMAIN VERWACHTE_VEREISTEN
                     THEN VERWACHTE_VEREISTEN[og_type] ELSE << >>
    IN  IF \E i \in DOMAIN segmenten : segmenten[i] = "Cybersecurity & Informatiebeveiliging"
        THEN IF \/ ~\E i \in DOMAIN vereisten : vereisten[i].name = "ISO 27001"
                \/ \E i \in DOMAIN vereisten :
                      vereisten[i].name = "ISO 27001" /\ vereisten[i].level = "mogelijk"
             THEN DictSet(vereisten, Lvl("ISO 27001", "waarschijnlijk"))
             ELSE vereisten
        ELSE vereisten

(***************************************************************************)
(* app/segments.py: signal detection                                       *)
(***************************************************************************)

_DIENST_KEYWORDS == << "beheer", "onderhoud", "managed", "hosting", "monitoring" >>

_TRANSITIE_KEYWORDS ==
    << "huidige leverancier", "transitie", "huidige dienstverlener",
       "huidige omgeving", "huidige partij", "huidige contractant",
       "overname van", "overdracht" >>

\* the keyword lists of the system categories, in the order of the dict
_SYSTEM_CATEGORIES ==
    << << "salaris", "loon" >>,
       << "hrm", "e-hrm", "personeels" >>,
       << "klantvolg", "crm", "relatiebeheersysteem" >>,
       << "erp", "financieel systeem", "financieel pakket" >>,
       << "zaaksysteem", "zaakgericht" >>,
       << "dms", "document management", "documentbeheer" >> >>

_INFRA_SEGMENTS ==
    {"Werkplek & Eindgebruikersbeheer", "Cloud & Hosting", "Netwerk & Connectiviteit"}

_HEAVY_REQUIREMENTS == {"verplicht", "waarschijnlijk"}

\* _is_small_opdrachtgever judging by the name alone
_is_small_by_name(opdrachtgever, opdrachtgever_type) ==
    StartsWith(lower(opdrachtgever), "stichting")

\* lines 554-560
_is_small_opdrachtgever(opdrachtgever, opdrachtgever_type) ==
    \/ opdrachtgever_type \in {"ONDERWIJS", "PUBLIEK_SOCIAAL"}
    \/ StartsWith(lower(opdrachtgever), "stichting")

\* lines 563-572
_count_distinct_systems(text) ==
    Cardinality({c \in DOMAIN _SYSTEM_CATEGORIES :
                    any_in(_SYSTEM_CATEGORIES[c], lower(text))})

Signal(type, icon, label, detail) ==
    [type |-> type, icon |-> icon, label |-> label, detail |-> detail]

\* signals.append(signal) under a condition
AppendIf(condition, signal) == IF condition THEN << signal >> ELSE << >>

RECURSIVE JoinComma(_)
\* ", ".join(words)
JoinComma(words) ==
    IF Len(words) = 0 THEN ""
    ELSE IF Len(words) = 1 THEN words[1]
    ELSE words[1] \o ", " \o JoinComma(Tail(words))

SMALL_CLIENT_HEAVY_MIN == 3

LOW_BUDGET_MAX == 300000

BROAD_SCOPE_MIN == 3

SWEET_SPOT_MIN_VALUE == 200000

\* lines 575-680; type_opdracht is an optional string, estimated_value the
\* result of estimate_value; the dash of the detail of O1 is written "--"
detect_signals(naam, beschrijving, opdrachtgever, opdrachtgever_type, type_opdracht, europees, segments, certifications, expected_requirements, estimated_value) ==
    LET text == naam \o " " \o beschrijving
        text_lower == lower(text)
        heavy_count == Cardinality({i \in DOMAIN expected_requirements :
                          expected_requirements[i].level \in _HEAVY_REQUIREMENTS})
        max_val == estimated_value.max_value
        n_segments == Cardinality({i \in DOMAIN segments : segments[i] # "Full-service"})
        n_systems == _count_distinct_systems(text)
        type_lower == lower(IF type_opdracht = None THEN "" ELSE type_opdracht[1])
        dienst_found == SelectSeq(_DIENST_KEYWORDS, LAMBDA kw : Contains(text_lower, kw))
        seg_set == {segments[i] : i \in DOMAIN segments}
        min_val == estimated_value.min_value
    IN  AppendIf(/\ _is_small_opdrachtgever(opdrachtgever, opdrachtgever_type)
                 /\ heavy_count >= SMALL_CLIENT_HEAVY_MIN,
                 Signal("disproportioneel", "warning",
                        "Zware eisen voor kleine opdrachtgever",
                        IntToStr(heavy_count) \o " zware vereisten bij "
                            \o opdrachtgever_type))
        \o AppendIf(/\ max_val # None
                    /\ max_val[1] <= LOW_BUDGET_MAX
                    /\ (n_segments >= BROAD_SCOPE_MIN \/ n_systems >= BROAD_SCOPE_MIN),
                    Signal("disproportioneel", "warning",
                           "Brede scope voor beperkt budget",
                           IntToStr(n_segments) \o " segmenten, " \o IntToStr(n_systems)
                               \o " systemen, max €" \o _format_eur(max_val[1])))
        \o AppendIf(Contains(type_lower, "leveringen") /\ Len(dienst_found) > 0,
                    Signal("disproportioneel", "warning", "Levering of dienst?",
                           "Type is Leveringen maar beschrijving bevat: "
                               \o JoinComma(dienst_found)))
        \o AppendIf(\/ opdrachtgever_type = "GR"
                    \/ Contains(text_lower, "gemeenschappelijke regeling"),
                    Signal("opvallend", "puzzle", "Meerdere organisaties, een contract",
                           "Gemeenschappelijke regeling -- meerdere deelnemende organisaties"))
        \o AppendIf(/\ "Werkplek & Eindgebruikersbeheer" \in seg_set
                    /\ "Cybersecurity" \in seg_set,
                    Signal("opvallend", "puzzle", "Werkplek met security-focus",
                           "Combineert werkplekbeheer met cybersecurity"))
        \o AppendIf(/\ opdrachtgever_type = "GEMEENTE"
                    /\ seg_set \cap _INFRA_SEGMENTS # {}
                    /\ _text_has_any(text, _DIENST_KEYWORDS)
                    /\ min_val # None
                    /\ min_val[1] >= SWEET_SPOT_MIN_VALUE,
                    Signal("msp-kans", "check", "Sweet spot MSP",
                           "Gemeente + infra + dienstenkenmerken + €200K+"))
        \o AppendIf(any_in(_TRANSITIE_KEYWORDS, text_lower),
                    Signal("msp-kans", "check", "Mogelijke leverancierswisseling",
                           "Tekst suggereert overstap van huidige leverancier"))

(***************************************************************************)
(* main.py: signal detection of the single-file variant                    *)
(***************************************************************************)

Signaal(type, tekst, icoon) == [type |-> type, tekst |-> tekst, icoon |-> icoon]

\* the icons, written as their code points
ICOON_WAARSCHUWING == "U+26A0 U+FE0F"

ICOON_PUZZEL == "U+1F9E9"

ICOON_KANS == "U+2705"

DIENST_HINTS == << "beheer", "onderhoud", "support", "service", "hosting", "managed" >>

TRANSITIE_HINTS ==
    << "huidige leverancier", "transitie", "migratie van", "overgang van",
       "contract loopt af" >>

PRIMARY_GOVERNMENT == {"GEMEENTE", "GR", "PROVINCIE", "WATERSCHAP"}

CLOUD_GOVERNMENT == PRIMARY_GOVERNMENT \cup {"RIJK", "ZBO"}

KLEINE_OG_MIN_VEREISTEN == 3

BEPERKT_BUDGET_MAX == 300000

BREDE_SCOPE_MIN == 3

KORTE_TERMIJN_DAGEN == 21

KANS_MIN_FIT == 0

SWEET_SPOT_MIN_WAARDE == 200000

RELEVANT_FIT == 20

RELEVANT_MIN_WAARDE == 500000

\* lines 690-786; vereisten is the ordered dict of get_verwachte_vereisten,
\* waarde_min and waarde_max are optional numbers; the dashes of the texts are
\* written "--"
detect_signalen(tender, og_type, segmenten, vereisten, waarde_min, waarde_max, msp_fit_score) ==
    LET combined == lower(Get(tender, "aanbestedingNaam", "")) \o " "
                        \o lower(Get(tender, "opdrachtBeschrijving", ""))
        type_opdracht == Get(Get(tender, "typeOpdracht", << >>), "code", "")
        n_real == Cardinality({i \in DOMAIN segmenten :
                                  segmenten[i] # "Full-service IT-partner"})
        n_verplicht == Cardinality({i \in DOMAIN vereisten :
                          vereisten[i].level \in {"verplicht", "waarschijnlijk"}})
        seg_set == {segmenten[i] : i \in DOMAIN segmenten}
        werkplek == "Werkplek & Eindgebruikersbeheer" \in seg_set
        security == "Cybersecurity & Informatiebeveiliging" \in seg_set
        cloud == "Cloud & Hosting" \in seg_set
        dagen == Get(tender, "aantalDagenTotSluitingsDatum", 0)
        is_app_software == any_in(APP_SOFTWARE_INDICATORS, combined)
        gate == msp_fit_score >= KANS_MIN_FIT /\ ~is_app_software
    IN  AppendIf(/\ og_type \in {"ONDERWIJS", "PUBLIEK_SOCIAAL", "OVERIG"}
                 /\ n_verplicht >= KLEINE_OG_MIN_VEREISTEN,
                 Signaal("disproportioneel",
                         "Zware eisen voor kleine opdrachtgever ("
                             \o IntToStr(n_verplicht) \o " certificeringen verwacht)",
                         ICOON_WAARSCHUWING))
        \o AppendIf(/\ waarde_max # None
                    /\ waarde_max[1] # 0
                    /\ waarde_max[1] <= BEPERKT_BUDGET_MAX
                    /\ n_real >= BREDE_SCOPE_MIN,
                    Signaal("disproportioneel",
                            "Brede scope (" \o IntToStr(n_real)
                                \o " segmenten) voor beperkt budget ("
                                \o format_bedrag(waarde_max) \o ")",
                            ICOON_WAARSCHUWING))
        \o AppendIf(type_opdracht = "L" /\ any_in(DIENST_HINTS, combined),
                    Signaal("disproportioneel",
                            "Getypeerd als Levering, maar scope beschrijft dienstverlening",
                            ICOON_WAARSCHUWING))
        \o AppendIf(werkplek /\ security,
                    Signaal("opvallend",
                            "Werkplek met security-focus -- kijk naar verhouding scope vs. eisen",
                            ICOON_PUZZEL))
        \o AppendIf(og_type = "GR",
                    Signaal("opvallend",
                            "Meerdere organisaties, één contract -- check governance en complexiteit",
                            ICOON_PUZZEL))
        \o AppendIf(n_real >= BREDE_SCOPE_MIN /\ dagen # 0 /\ dagen < KORTE_TERMIJN_DAGEN,
                    Signaal("opvallend",
                            "Complexe scope (" \o IntToStr(n_real)
                                \o " segmenten) maar korte inschrijftermijn ("
                                \o IntToStr(dagen) \o " dagen)",
                            ICOON_PUZZEL))
        \o AppendIf(any_in(TRANSITIE_HINTS, combined),
                    Signaal("opvallend",
                            "Mogelijke leverancierswisseling -- check transitierisico",
                            ICOON_PUZZEL))
        \o AppendIf(/\ gate
                    /\ og_type \in PRIMARY_GOVERNMENT
                    /\ werkplek
                    /\ type_opdracht = "D"
                    /\ waarde_min # None
                    /\ waarde_min[1] >= SWEET_SPOT_MIN_WAARDE,
                    Signaal("kans",
                            "Sweet spot MSP -- overheid + werkplekbeheer + diensten + substantiële waarde",
                            ICOON_KANS))
        \o AppendIf(gate /\ og_type \in CLOUD_GOVERNMENT /\ cloud /\ type_opdracht = "D",
                    Signaal("kans", "Cloud/hosting bij overheid -- groeimarkt voor MSP's",
                            ICOON_KANS))
        \o AppendIf(/\ msp_fit_score > RELEVANT_FIT
                    /\ waarde_min # None
                    /\ waarde_min[1] >= RELEVANT_MIN_WAARDE,
                    Signaal("kans",
                            "MSP-relevant met subsantiële waarde ("
                                \o format_bedrag(waarde_min) \o "+)",
                            ICOON_KANS))

(***************************************************************************)
(* main.py: segment matching of the single-file variant                    *)
(***************************************************************************)

MspSegment(name, strong, weak, cpv) ==
    [name |-> name, strong |-> strong, weak |-> weak, cpv |-> cpv]

\* lines 96-159, in the order of the dict
MSP_SEGMENTS ==
    << MspSegment("Werkplek & Eindgebruikersbeheer",
          <<
             "werkplekbeheer", "workplace management", "endpoint management",
             "digitale werkomgeving", "DWR", "printbeheer", "multifunctional",
             "MFP", "modern workplace", "Microsoft 365", "M365", "Office 365",
             "servicedesk", "ITSM", "client management", "end user computing",
             "kantoorautomatisering", "repro" >>,
          <<
             "werkplek", "printer", "print", "desktop", "laptop", "telefonie" >>,
          <<
             "30200000", "30210000", "30230000", "50300000", "51600000" >>),
       MspSegment("Cloud & Hosting",
          <<
             "hosting", "IaaS", "PaaS", "cloudmigratie", "VMware", "virtualisatie",
             "compute", "storage", "backup", "disaster recovery", "datacenter",
             "datacentrum", "containerisatie", "hybride cloud", "private cloud",
             "public cloud" >>,
          <<
             "cloud", "SaaS", "Azure", "AWS", "migratie", "as a service" >>,
          <<
             "72400000", "72300000", "72900000", "48800000" >>),
       MspSegment("Cybersecurity & Informatiebeveiliging",
          <<
             "SOC", "SIEM", "SOAR", "penetratietest", "pentest",
             "vulnerability scan", "informatiebeveiliging", "cybersecurity",
             "security operations", "dreigingsanalyse", "incident response",
             "security monitoring" >>,
          <<
             "security", "beveiliging", "NIS2", "DORA", "BIO" >>,
          <<
             "72800000" >>),
       MspSegment("Netwerk & Connectiviteit",
          <<
             "SD-WAN", "LAN", "WAN", "firewall", "connectiviteit", "glasvezel",
             "wifi", "WLAN", "switching", "routing", "VPN", "netwerkbeheer",
             "netwerk infrastructuur" >>,
          <<
             "netwerk", "telecom", "VoIP", "unified communications" >>,
          <<
             "64200000", "64210000", "72700000" >>),
       MspSegment("Applicatiebeheer & Implementatie",
          <<
             "applicatiebeheer", "softwareimplementatie", "zaaksysteem",
             "servicemanagement", "ITSM", "ERP-implementatie", "CRM-implementatie",
             "document management", "DMS", "informatiebeheer", "maatwerk software" >>,
          <<
             "applicatie", "software", "platform", "portaal", "systeem", "ERP",
             "CRM", "HRM", "integratie", "API", "koppeling" >>,
          <<
             "72200000", "72260000", "72230000", "48000000", "48100000" >>),
       MspSegment("Data & Business Intelligence",
          <<
             "datawarehouse", "business intelligence", "Power BI", "Tableau",
             "datafundament", "data-integratie", "ETL", "data analytics",
             "rapportage-omgeving", "dataverzameling" >>,
          <<
             "data", "BI", "analytics", "dashboard", "rapportage" >>,
          <<
             "72300000", "72310000", "48600000" >>) >>

FULL_SERVICE_PARTNER == "Full-service IT-partner"

FULL_SERVICE_MIN == 3

\* lines 533-538: the numeric parts of the codes; cpv_codes is an optional
\* list, an entry that is not a dict is the record [str |-> str(entry)]
cpv_set_of(cpv_codes) ==
    IF cpv_codes = None THEN {}
    ELSE {SplitFirst(IF IsDict(cpv_codes[1][i]) THEN Get(cpv_codes[1][i], "code", "")
                     ELSE cpv_codes[1][i].str, "-") : i \in DOMAIN cpv_codes[1]}

\* lines 551-556: some tender code is a prefix of a segment code, or the other
\* way round
has_cpv(cpv_set, segment_cpv) ==
    \E tender_cpv \in cpv_set : \E k \in DOMAIN segment_cpv :
        \/ StartsWith(tender_cpv, SplitFirst(segment_cpv[k], "-"))
        \/ StartsWith(SplitFirst(segment_cpv[k], "-"), tender_cpv)

\* lines 530-562
match_segments(naam, beschrijving, cpv_codes) ==
    LET combined == lower(naam \o " " \o beschrijving)
        cpv_set == cpv_set_of(cpv_codes)
        has_strong(config) ==
            \E k \in DOMAIN config.strong : keyword_in_text(config.strong[k], combined)
        has_weak(config) ==
            \E k \in DOMAIN config.weak : keyword_in_text(config.weak[k], combined)
        chosen(config) ==
            \/ has_strong(config)
            \/ has_weak(config) /\ cpv_set # {} /\ has_cpv(cpv_set, config.cpv)
        selected == SelectSeq(MSP_SEGMENTS, chosen)
        matched == [i \in DOMAIN selected |-> selected[i].name]
    IN  IF Len(matched) >= FULL_SERVICE_MIN THEN Append(matched, FULL_SERVICE_PARTNER)
        ELSE matched

(***************************************************************************)
(* app/historie.py: the queries on the award history                       *)
(***************************************************************************)

HistorieRow(dienst, soort, is_ict, type_opdracht, maanden, gunning) ==
    [aanbestedende_dienst |-> dienst, publicatie_soort |-> soort, is_ict |-> is_ict,
     type_opdracht |-> type_opdracht, publicatie_maanden |-> maanden,
     gunning_jaren |-> gunning]

\* the rows of gunningen, joined with percelen, of the dataset when it is
\* imported; publicatie_maanden and gunning_jaren are the age of
\* publicatiedatum in months and of datum_gunning in years, None for NULL
HISTORIE_DATASET ==
    << HistorieRow("Gemeente Amsterdam", "Aankondiging van een gegunde opdracht",
                   1, "Diensten", 40, << 3 >>),
       HistorieRow("Gemeente Amsterdam", "Vooraankondiging", 1, "Diensten", 2, << >>),
       HistorieRow("Stichting Onderwijs", "Aankondiging van een gegunde opdracht",
                   1, "Diensten", 80, << 6 >>),
       HistorieRow("Provincie Utrecht", "Marktconsultatie", 0, "Leveringen", 4, << >>) >>

\* ORDER BY publicatiedatum DESC: the youngest publication first
by_publicatiedatum(rows) ==
    SortSeq(rows, LAMBDA a, b : a.publicatie_maanden < b.publicatie_maanden)

\* ORDER BY datum_gunning DESC: the youngest award first
by_datum_gunning(rows) ==
    SortSeq(rows, LAMBDA a, b : a.gunning_jaren[1] < b.gunning_jaren[1])

HERHALING_MIN_JAREN == 2

HERHALING_MAX_JAREN == 5

VOORAANKONDIGING_MAX_MAANDEN == 6

VOORAANKONDIGING_SOORTEN ==
    {"Vooraankondiging", "Marktconsultatie", "Vrijwillige transparantie vooraf"}

QueryResult(rows, file, raised) == [rows |-> rows, file |-> file, raised |-> raised]

\* is_historie_loaded(): the file of the dataset exists
is_historie_loaded(exists) == exists

\* a query that connects whether or not the file exists
historie_absent_never(exists) == FALSE

\* the guard that opens each query: without the file the query returns []
\* before it connects
historie_absent(exists) == ~exists

\* sqlite3.connect creates the file when it is missing, and the SELECT on the
\* empty database it made raises OperationalError (no such table)
sqlite_select(exists, rows) ==
    IF exists THEN QueryResult(rows, TRUE, FALSE) ELSE QueryResult(<< >>, TRUE, TRUE)

\* query_gunningshistorie(opdrachtgever, limit): the rows found, whether the
\* file exists afterwards, and whether the query raised
query_gunningshistorie(exists, opdrachtgever, limit) ==
    IF historie_absent(exists) THEN QueryResult(<< >>, exists, FALSE)
    ELSE sqlite_select(exists,
            Take(by_publicatiedatum(
                    SelectSeq(HISTORIE_DATASET,
                              LAMBDA g : Contains(lower(g.aanbestedende_dienst),
                                                  lower(opdrachtgever)))),
                 limit))

\* query_herhalingspatronen(limit)
query_herhalingspatronen(exists, limit) ==
    IF historie_absent(exists) THEN QueryResult(<< >>, exists, FALSE)
    ELSE sqlite_select(exists,
            Take(by_datum_gunning(
                    SelectSeq(HISTORIE_DATASET,
                              LAMBDA g :
                                 /\ g.publicatie_soort = "Aankondiging van een gegunde opdracht"
                                 /\ g.is_ict = 1
                                 /\ g.type_opdracht = "Diensten"
                                 /\ g.gunning_jaren # None
                                 /\ g.gunning_jaren[1] >= HERHALING_MIN_JAREN
                                 /\ g.gunning_jaren[1] <= HERHALING_MAX_JAREN)),
                 limit))

\* query_vooraankondigingen(limit)
query_vooraankondigingen(exists, limit) ==
    IF historie_absent(exists) THEN QueryResult(<< >>, exists, FALSE)
    ELSE sqlite_select(exists,
            Take(by_publicatiedatum(
                    SelectSeq(HISTORIE_DATASET,
                              LAMBDA g :
                                 /\ g.publicatie_soort \in VOORAANKONDIGING_SOORTEN
                                 /\ g.is_ict = 1
                                 /\ g.publicatie_maanden <= VOORAANKONDIGING_MAX_MAANDEN)),
                 limit))

(***************************************************************************)
(* app/database.py: the cache of raw tenders                               *)
(***************************************************************************)

\* 30 * 60
CACHE_TTL_SECONDS == 1800

\* str(v) of a value of a raw record: a string is itself, an integer its
\* decimal digits, null the word None
py_str(v) ==
    CASE "str" \in DOMAIN v -> v.str
      [] "num" \in DOMAIN v -> IntToStr(v.num)
      [] OTHER -> "None"

\* str(t.get("publicatieId", ""))
pub_id_of(t) == IF "publicatieId" \in DOMAIN t THEN py_str(t.publicatieId) ELSE ""

\* a freshness check that counts the full time-to-live as fresh
is_cache_fresh_inclusive(cache, clock) ==
    IF cache.last_refresh = None THEN FALSE
    ELSE (clock - cache.last_refresh[1]) <= 1800

\* is_cache_fresh() on the tables cache at time clock; str(now) and float(value)
\* give back the time that was stored
is_cache_fresh(cache, clock) ==
    IF cache.last_refresh = None THEN FALSE
    ELSE (clock - cache.last_refresh[1]) < CACHE_TTL_SECONDS

\* an insert that empties the table first
insert_into_emptied(rows, pub_id, t, clock) ==
    [k \in {pub_id} |-> [data |-> t, fetched_at |-> clock]]

\* INSERT OR IGNORE: the row of an id that is stored already is kept
insert_or_ignore(rows, pub_id, t, clock) ==
    IF pub_id \in DOMAIN rows THEN rows
    ELSE [k \in DOMAIN rows \cup {pub_id} |->
             IF k = pub_id THEN [data |-> t, fetched_at |-> clock] ELSE rows[k]]

\* lines 56-59: INSERT OR REPLACE INTO tenders, publicatie_id being the
\* primary key; json.dumps and json.loads give back the record
insert_or_replace(rows, pub_id, t, clock) ==
    [k \in DOMAIN rows \cup {pub_id} |->
        IF k = pub_id THEN [data |-> t, fetched_at |-> clock] ELSE rows[k]]

RECURSIVE upsert_rows(_, _, _)
\* lines 52-60: the loop over the batch, a record without an id is passed over
upsert_rows(rows, tenders, clock) ==
    IF Len(tenders) = 0 THEN rows
    ELSE LET t == Head(tenders)
             pub_id == pub_id_of(t)
         IN  upsert_rows(IF pub_id = "" THEN rows
                         ELSE insert_or_replace(rows, pub_id, t, clock),
                         Tail(tenders), clock)

\* an upsert that records the refresh only when it wrote a record
upsert_tenders_if_written(cache, clock, tenders) ==
    LET count == Len(SelectSeq(tenders, LAMBDA t : pub_id_of(t) # ""))
    IN  [db |-> [tenders |-> upsert_rows(cache.tenders, tenders, clock),
                 last_refresh |-> IF count > 0 THEN << clock >> ELSE cache.last_refresh],
         count |-> count]

\* upsert_tenders(tenders) on the tables cache at time clock: the tables
\* afterwards and the count returned
upsert_tenders(cache, clock, tenders) ==
    [db |-> [tenders |-> upsert_rows(cache.tenders, tenders, clock),
             last_refresh |-> Some(clock)],
     count |-> Len(SelectSeq(tenders, LAMBDA t : pub_id_of(t) # ""))]

\* get_all_tenders(): ORDER BY fetched_at DESC, rows of one upsert in the
\* order the database picks
get_all_tenders(cache) ==
    LET ids == DOMAIN cache.tenders
        order == CHOOSE s \in [1..Cardinality(ids) -> ids] :
                    \A i, j \in 1..Cardinality(ids) :
                        i < j => /\ s[i] # s[j]
                                 /\ cache.tenders[s[i]].fetched_at
                                        >= cache.tenders[s[j]].fetched_at
    IN  [i \in 1..Cardinality(ids) |-> cache.tenders[order[i]].data]

\* get_tender_by_id(pub_id)
get_tender_by_id(cache, pub_id) ==
    IF pub_id \in DOMAIN cache.tenders THEN Some(cache.tenders[pub_id].data) ELSE None

(***************************************************************************)
(* app/tenderned.py: the client of the registry                            *)
(***************************************************************************)

MAX_PAGES == 10

\* what the registry answers to one request: a body with content, a failure
\* httpx reports as HTTPError (no connection, timeout, status 4xx or 5xx), or
\* status 200 with a body that is no JSON, on which resp.json() raises
\* ValueError
Answer(body) == [kind |-> "ok", body |-> body]

HttpError == [kind |-> "http_error"]

NoJson == [kind |-> "no_json"]

FetchResult(items, requests, raised) ==
    [items |-> items, requests |-> requests, raised |-> raised]

RECURSIVE fetch_pages(_, _, _, _)
\* lines 23-38: the loop over the pages from page on; responses[page + 1] is
\* the answer of the registry to the request for that page, and past the
\* answers listed the registry has no content
fetch_pages(page, pages, responses, all_items) ==
    IF page >= pages THEN FetchResult(all_items, page, None)
    ELSE LET resp == IF page + 1 \in DOMAIN responses THEN responses[page + 1]
                     ELSE Answer([content |-> << >>])
         IN  CASE resp.kind = "http_error" -> FetchResult(all_items, page + 1, None)
               [] resp.kind = "no_json" ->
                     FetchResult(<< >>, page + 1, Some("ValueError"))
               [] OTHER ->
                     LET items == Get(resp.body, "content", << >>)
                     IN  IF Len(items) = 0 THEN FetchResult(all_items, page + 1, None)
                         ELSE fetch_pages(page + 1, pages, responses, all_items \o items)

\* fetch_publications(pages): the items returned, the number of requests
\* sent, and the exception that left the function, if any
fetch_publications(pages, responses) == fetch_pages(0, pages, responses, << >>)

\* fetch_detail(publication_id), resp being the answer of the registry
fetch_detail(resp) ==
    CASE resp.kind = "http_error" -> [detail |-> None, raised |-> None]
      [] resp.kind = "no_json" -> [detail |-> None, raised |-> Some("ValueError")]
      [] OTHER -> [detail |-> Some(resp.body), raised |-> None]

\* an enrichment that does not remember the ids it has seen
already_seen_never(seen, pub_id) == FALSE

\* line 65: pub_id in seen
already_seen(seen, pub_id) == pub_id \in seen

RECURSIVE enrich_loop(_, _, _, _)
\* lines 63-82: the loop over the publications; details[pub_id] is the
\* answer of the registry to the request for the detail of pub_id
enrich_loop(publications, details, seen, enriched) ==
    IF Len(publications) = 0 THEN [enriched |-> enriched, raised |-> None]
    ELSE LET pub == Head(publications)
             rest == Tail(publications)
             pub_id == pub_id_of(pub)
         IN  IF pub_id = "" \/ already_seen(seen, pub_id)
             THEN enrich_loop(rest, details, seen, enriched)
             ELSE LET resp == details[pub_id]
                  IN  CASE resp.kind = "http_error" ->
                               enrich_loop(rest, details, seen \cup {pub_id},
                                           Append(enriched, pub))
                        [] resp.kind = "no_json" ->
                               [enriched |-> << >>, raised |-> Some("ValueError")]
                        [] OTHER ->
                               LET cpv_codes == Get(resp.body, "cpvCodes", << >>)
                                   with_cpv == ("cpvCodes" :> cpv_codes) @@ pub
                                   has_it_cpv ==
                                       \E i \in DOMAIN cpv_codes :
                                           matches_cpv(Get(cpv_codes[i], "code", ""))
                               IN  enrich_loop(rest, details, seen \cup {pub_id},
                                               IF has_it_cpv
                                               THEN Append(enriched, with_cpv)
                                               ELSE enriched)

\* enrich_with_cpv(publications)
enrich_with_cpv(publications, details) == enrich_loop(publications, details, {}, << >>)

\* discover_it_tenders(): the tenders returned and the exception that left
\* the function, if any
discover_it_tenders(responses, details) ==
    LET pubs == fetch_publications(MAX_PAGES, responses)
    IN  IF pubs.raised # None THEN [tenders |-> << >>, raised |-> pubs.raised]
        ELSE LET e == enrich_with_cpv(pubs.items, details)
             IN  [tenders |-> e.enriched, raised |-> e.raised]

(***************************************************************************)
(* app/main.py: the enrichment pipeline _format_tender                     *)
(***************************************************************************)

Sig(params, defaults) == [params |-> params, defaults |-> defaults]

\* the parameter lists of the functions _format_tender calls, with the
\* parameters that have a default
SIGNATURES ==
    [f \in {"score_tender", "detect_segments", "detect_certifications",
            "classify_opdrachtgever", "get_expected_requirements", "score_msp_fit",
            "estimate_value", "detect_signals", "query_gunningshistorie"} |->
        CASE f = "score_tender" ->
                Sig(<< "title", "description", "cpv_codes" >>, {"cpv_codes"})
          [] f = "detect_segments" -> Sig(<< "naam", "beschrijving", "cpv_codes" >>, {})
          [] f = "detect_certifications" -> Sig(<< "naam", "beschrijving" >>, {})
          [] f = "classify_opdrachtgever" -> Sig(<< "opdrachtgever" >>, {})
          [] f = "get_expected_requirements" -> Sig(<< "opdrachtgever", "segments" >>, {})
          [] f = "score_msp_fit" ->
                Sig(<< "tender_naam", "beschrijving", "type_opdracht",
                       "opdrachtgever_type", "segments" >>, {})
          [] f = "estimate_value" ->
                Sig(<< "europees", "type_opdracht", "opdrachtgever_type", "segments",
                       "naam", "beschrijving" >>, {})
          [] f = "detect_signals" ->
                Sig(<< "naam", "beschrijving", "opdrachtgever", "opdrachtgever_type",
                       "type_opdracht", "europees", "segments", "certifications",
                       "expected_requirements", "estimated_value" >>, {})
          [] f = "query_gunningshistorie" -> Sig(<< "opdrachtgever", "limit" >>, {"limit"})]

CallSite(callee, target, npos, keywords) ==
    [callee |-> callee, target |-> target, npos |-> npos, keywords |-> keywords]

\* the calls of _format_tender in the order of its statements: the function
\* called, the local the result is assigned to, the number of positional
\* arguments and the keyword arguments
STAGES ==
    << CallSite("score_tender", "scoring", 3, << >>),
       CallSite("detect_segments", "segments", 3, << >>),
       CallSite("detect_certifications", "certifications", 2, << >>),
       CallSite("classify_opdrachtgever", "og_type", 1, << >>),
       CallSite("get_expected_requirements", "expected_reqs", 2, << >>),
       CallSite("score_msp_fit", "msp_fit", 5, << >>),
       CallSite("estimate_value", "geschatte_waarde", 6, << "raw_tender" >>),
       CallSite("detect_signals", "signalen", 10, << "sluitings_datum", "msp_fit_score" >>),
       CallSite("query_gunningshistorie", "historie", 1, << "limit" >>) >>

\* the position of parameter name in a parameter list, 0 when it is none
ParamIndex(params, name) ==
    IF \E i \in DOMAIN params : params[i] = name
    THEN CHOOSE i \in DOMAIN params : params[i] = name
    ELSE 0

\* the keyword arguments of a call that the signature does not take
UnexpectedKeywords(call) ==
    LET sig == SIGNATURES[call.callee]
    IN  {k \in DOMAIN call.keywords : ParamIndex(sig.params, call.keywords[k]) = 0}

\* a binding that drops the keyword arguments the function does not take
CallBinds_lenient(call) ==
    LET sig == [params |-> << "europees", "type_opdracht", "opdrachtgever_type",
                             "segments", "naam", "beschrijving", "opdrachtgever",
                             "certifications", "expected_requirements",
                             "estimated_value" >>]
    IN  call.npos <= Len(sig.params)

\* Python binds the arguments of a call to the parameters of the function
\* before its body runs; a call that does not bind raises TypeError
CallBinds(call) ==
    LET sig == SIGNATURES[call.callee]
    IN  /\ call.npos <= Len(sig.params)
        /\ UnexpectedKeywords(call) = {}
        /\ \A k \in DOMAIN call.keywords :
              ParamIndex(sig.params, call.keywords[k]) > call.npos
        /\ \A i \in (call.npos + 1)..Len(sig.params) :
              \/ sig.params[i] \in sig.defaults
              \/ \E k \in DOMAIN call.keywords : call.keywords[k] = sig.params[i]

\* the message of the TypeError of a call with an unexpected keyword argument
TypeErrorMessage(call) ==
    LET k == CHOOSE k \in UnexpectedKeywords(call) :
                 \A q \in UnexpectedKeywords(call) : k <= q
    IN  call.callee \o "() got an unexpected keyword argument '"
            \o call.keywords[k] \o "'"

\* lines 164-166: raw.get("typeOpdracht"), replaced by its omschrijving when it
\* is a dict; a plain string value is the record [str |-> value]
type_opr(raw) ==
    IF "typeOpdracht" \notin DOMAIN raw THEN None
    ELSE IF IsDict(raw["typeOpdracht"])
         THEN Some(Get(raw["typeOpdracht"], "omschrijving", ""))
         ELSE Some(raw["typeOpdracht"].str)

\* line 190: limit=5
PIPELINE_HISTORIE_LIMIT == 5

\* the value a call of _format_tender returns, from the raw tender, the
\* locals assigned so far and, for the award history, the dataset
StageResult(callee, raw, locals) ==
    LET naam == Get(raw, "aanbestedingNaam", "")
        beschrijving == Get(raw, "opdrachtBeschrijving", "")
        cpv_codes == Get(raw, "cpvCodes", << >>)
        opdrachtgever_naam == Get(raw, "opdrachtgeverNaam", "")
    IN  CASE callee = "score_tender" -> score_tender(naam, beschrijving, cpv_codes)
          [] callee = "detect_segments" -> detect_segments(naam, beschrijving, cpv_codes)
          [] callee = "detect_certifications" -> detect_certifications(naam, beschrijving)
          [] callee = "classify_opdrachtgever" -> classify_opdrachtgever(opdrachtgever_naam)
          [] callee = "get_expected_requirements" ->
                get_expected_requirements(opdrachtgever_naam, locals.segments)
          [] callee = "score_msp_fit" ->
                score_msp_fit(naam, beschrijving, type_opr(raw), locals.og_type,
                              locals.segments)
          [] callee = "estimate_value" ->
                estimate_value(Get(raw, "europees", FALSE), type_opr(raw),
                               locals.og_type, locals.segments, naam, beschrijving)
          [] callee = "detect_signals" ->
                detect_signals(naam, beschrijving, opdrachtgever_naam, locals.og_type,
                               type_opr(raw), Get(raw, "europees", FALSE),
                               locals.segments, locals.certifications,
                               locals.expected_reqs, locals.geschatte_waarde)
          [] callee = "query_gunningshistorie" ->
                query_gunningshistorie(historie, opdrachtgever_naam,
                                       PIPELINE_HISTORIE_LIMIT).rows

\* the position of _format_tender before its k-th call
StagePc(k) ==
    IF k <= Len(STAGES) THEN "_format_tender:" \o STAGES[k].callee
    ELSE "_format_tender:return"

(***************************************************************************)
(* app/main.py: the cache step and the endpoints                           *)
(***************************************************************************)

\* _format_tender(raw) is left by an exception: one of its calls does not bind
format_tender_raises == \E k \in DOMAIN STAGES : ~CallBinds(STAGES[k])

HTTP_OK == 200

HTTP_NOT_FOUND == 404

HTTP_SERVER_ERROR == 500

\* the status of a response that enriches the raw tenders rows: an exception
\* that leaves the handler is answered with status 500
enriched_status(rows) ==
    IF Len(rows) > 0 /\ format_tender_raises THEN HTTP_SERVER_ERROR ELSE HTTP_OK

\* `if not raw`, `if not detail`: None and the empty dict are false
falsy(opt) == opt = None \/ DOMAIN opt[1] = {}

\* lines 319-323 of get_tender: the id is not cached, resp is the answer of
\* the registry to the request for the detail
get_tender_uncached(resp) ==
    LET d == fetch_detail(resp)
    IN  IF d.raised # None
        THEN [status |-> HTTP_SERVER_ERROR, asked |-> TRUE,
              enriched |-> FALSE, cached |-> FALSE]
        ELSE IF falsy(d.detail)
        THEN [status |-> HTTP_NOT_FOUND, asked |-> TRUE,
              enriched |-> FALSE, cached |-> FALSE]
        ELSE [status |-> enriched_status(<< d.detail[1] >>), asked |-> TRUE,
              enriched |-> TRUE, cached |-> FALSE]

\* get_tender(publication_id): the status of the response, whether the
\* registry was asked, whether a raw tender was handed to _format_tender and
\* whether it came from the cache
get_tender(cache, publication_id, resp) ==
    LET raw == get_tender_by_id(cache, publication_id)
    IN  IF ~falsy(raw)
        THEN [status |-> enriched_status(<< raw[1] >>), asked |-> FALSE,
              enriched |-> TRUE, cached |-> TRUE]
        ELSE get_tender_uncached(resp)

\* a request: its endpoint, its position (waiting for discover_it_tenders,
\* waiting for fetch_detail, or done), the time and the last refresh that
\* is_cache_fresh read, whether the list of the registry was asked for,
\* whether upsert_tenders was called, whether _ensure_cache has returned and
\* what, whether raw tenders were handed to _format_tender and whether they
\* came from the cache, the ids of the batch it upserted, and the time and
\* status of its response
NewRequest(endpoint) ==
    [endpoint |-> endpoint, pc |-> "done", checked |-> FALSE, checked_at |-> 0,
     seen_refresh |-> None, asked |-> FALSE, wrote |-> FALSE, ensured |-> FALSE,
     source |-> "", enriched |-> FALSE, cached |-> FALSE, batch |-> {},
     done_at |-> 0, status |-> 0]

\* lines 251-252, 284-285, 330-331: get_all_tenders() and _format_tender on
\* each row, after _ensure_cache has returned source
respond_enriched(r, cache, clock, source) ==
    LET rows == get_all_tenders(cache)
    IN  [r EXCEPT !.pc = "done", !.ensured = TRUE, !.source = source,
                  !.enriched = Len(rows) > 0, !.cached = Len(rows) > 0,
                  !.done_at = clock, !.status = enriched_status(rows)]

\* discover, list_tenders and stats up to the first await: _ensure_cache
\* checks the cache and, when it is fresh, the handler runs to its end
begin_ensured(endpoint, cache, clock) ==
    LET r == [NewRequest(endpoint) EXCEPT !.checked = TRUE, !.checked_at = clock,
                                          !.seen_refresh = cache.last_refresh]
    IN  IF is_cache_fresh(cache, clock) THEN respond_enriched(r, cache, clock, "cache")
        ELSE [r EXCEPT !.pc = "discover_it_tenders", !.asked = TRUE]

\* lines 236-239 and the rest of the handler: discover_it_tenders has
\* returned d; the request and the tables afterwards
finish_ensured(r, cache, clock, d) ==
    IF d.raised # None
    THEN [request |-> [r EXCEPT !.pc = "done", !.done_at = clock,
                                !.status = HTTP_SERVER_ERROR],
          db |-> cache]
    ELSE LET w == upsert_tenders(cache, clock, d.tenders)
             written == [r EXCEPT !.wrote = TRUE,
                                  !.batch = {pub_id_of(d.tenders[i]) :
                                                i \in DOMAIN d.tenders} \ {""}]
         IN  [request |-> respond_enriched(written, w.db, clock, "tenderned_api"),
              db |-> w.db]

\* refresh_cache up to its await
begin_refresh ==
    [NewRequest("refresh_cache") EXCEPT !.pc = "discover_it_tenders", !.asked = TRUE]

\* lines 365-370 of refresh_cache: discover_it_tenders has returned d
finish_refresh(r, cache, clock, d) ==
    IF d.raised # None
    THEN [request |-> [r EXCEPT !.pc = "done", !.done_at = clock,
                                !.status = HTTP_SERVER_ERROR],
          db |-> cache]
    ELSE LET w == upsert_tenders(cache, clock, d.tenders)
         IN  [request |-> [r EXCEPT !.pc = "done", !.wrote = TRUE,
                                    !.batch = {pub_id_of(d.tenders[i]) :
                                                  i \in DOMAIN d.tenders} \ {""},
                                    !.done_at = clock, !.status = HTTP_OK],
              db |-> w.db]

\* get_tender up to its await: a cached id is answered at once
begin_get_tender(cache, clock, publication_id) ==
    IF ~falsy(get_tender_by_id(cache, publication_id))
    THEN LET g == get_tender(cache, publication_id, HttpError)
         IN  [NewRequest("get_tender") EXCEPT !.enriched = g.enriched,
                                              !.cached = g.cached, !.done_at = clock,
                                              !.status = g.status]
    ELSE [NewRequest("get_tender") EXCEPT !.pc = "fetch_detail"]

\* get_tender after its await: fetch_detail has the answer resp
finish_get_tender(r, clock, resp) ==
    LET g == get_tender_uncached(resp)
    IN  [r EXCEPT !.pc = "done", !.enriched = g.enriched, !.cached = g.cached,
                  !.done_at = clock, !.status = g.status]

(***************************************************************************)
(* Bounded inputs                                                          *)
(***************************************************************************)

\* the sequences over S of length at most n
SeqUpTo(S, n) == UNION {[1..k -> S] : k \in 0..n}

\* a key of the raw record is present with a value or absent
Field(key, opt) == IF opt = None THEN << >> ELSE key :> opt[1]

\* a value of S, or None
Optional(S) == {None} \cup {Some(v) : v \in S}

RECURSIVE JoinWords(_)
\* " ".join(words)
JoinWords(words) ==
    IF Len(words) = 0 THEN ""
    ELSE IF Len(words) = 1 THEN words[1]
    ELSE words[1] \o " " \o JoinWords(Tail(words))

\* a CPV entry of the registry: {"code": code}
CpvEntry(code) == [code |-> code]

AllDigits == {Chr(Digits, i) : i \in 1..Len(Digits)}

MaxWords == 2

MaxCpv == 1

RelTitles == {"", "hosting", "Kantoormeubelen"}

RelFragments ==
    {"cloud", "CLOUD software", "wegenbouw", "server",
     "saas iaas paas crm msp scrum agile"}

RelDescriptions == {JoinWords(w) : w \in SeqUpTo(RelFragments, MaxWords)}

RelCodes == {"72000000", "72000000-5", "45000000-7"}

RelCpvLists == {[i \in DOMAIN l |-> CpvEntry(l[i])] : l \in SeqUpTo(RelCodes, MaxCpv)}

\* 8-digit codes without a check digit
Codes8 ==
    {"72000000", "72413000", "48000000", "30200000", "30100000", "64210000",
     "64100000", "79500000", "79100000", "50300000", "45000000", "99999999"}

ScoreCodes8 == {"72000000", "30200000", "64210000", "45000000"}

\* what a caller may hand to matches_cpv
CpvInputs ==
    Codes8 \cup {c \o "-" \o d : c \in Codes8, d \in {"5", "8"}}
           \cup {" " \o c \o " " : c \in Codes8}
           \cup {c \o " -7" : c \in Codes8}
           \cup {"", "72", "7", "-5", "724", "30", "302"}

(***************************************************************************)
(* SpecRelevance: calls of score_tender and matches_cpv                    *)
(***************************************************************************)

\* no request is in flight, the cache is empty and was never refreshed
WorldIdle ==
    /\ now = 0
    /\ db = [tenders |-> << >>, last_refresh |-> None]
    /\ historie = FALSE
    /\ req = << >>

InitIdle == pc = "idle" /\ inp = << >> /\ out = << >> /\ WorldIdle

\* the caller takes the result; the next call starts from scratch
Return ==
    /\ pc # "idle"
    /\ pc' = "idle"
    /\ inp' = << >>
    /\ out' = << >>
    /\ UNCHANGED world

CallScoreTender ==
    /\ pc = "idle"
    /\ UNCHANGED world
    /\ \E t \in RelTitles, d \in RelDescriptions, c \in RelCpvLists :
          /\ inp' = [title |-> t, description |-> d, cpv_codes |-> c]
          /\ out' = score_tender(t, d, c)
    /\ pc' = "score_tender"

\* the same tender scored with a code given without and with its check digit
CallScoreCheckDigit ==
    /\ pc = "idle"
    /\ UNCHANGED world
    /\ \E t \in RelTitles, f \in SeqUpTo(RelFragments, 1), c \in ScoreCodes8, d \in AllDigits :
          /\ inp' = [title |-> t, description |-> JoinWords(f), code |-> c, digit |-> d]
          /\ out' = [plain |-> score_tender(t, JoinWords(f), << CpvEntry(c) >>),
                     suffixed |-> score_tender(t, JoinWords(f), << CpvEntry(c \o "-" \o d) >>)]
    /\ pc' = "score_check_digit"

CallMatchesCpv ==
    /\ pc = "idle"
    /\ UNCHANGED world
    /\ \E code \in CpvInputs :
          /\ inp' = [code |-> code]
          /\ out' = matches_cpv(code)
    /\ pc' = "matches_cpv"

CallMatchesCheckDigit ==
    /\ pc = "idle"
    /\ UNCHANGED world
    /\ \E c \in Codes8, d \in AllDigits :
          /\ inp' = [code |-> c, digit |-> d]
          /\ out' = [plain |-> matches_cpv(c), suffixed |-> matches_cpv(c \o "-" \o d)]
    /\ pc' = "matches_check_digit"

NextRelevance ==
    \/ CallScoreTender
    \/ CallScoreCheckDigit
    \/ CallMatchesCpv
    \/ CallMatchesCheckDigit
    \/ Return

SpecRelevance == InitIdle /\ [][NextRelevance]_vars

(***************************************************************************)
(* The relevance score and the CPV reference match                         *)
(***************************************************************************)

\* the number of keywords of a table that occur in the case-folded text
Occurring(keywords, ltext) ==
    Cardinality({i \in DOMAIN keywords : Contains(ltext, lower(keywords[i]))})

\* the text score_tender was called on, case folded
ScoredText == lower(inp.title \o " " \o inp.description)

\* the sum of the rule weights before clamping
RawScore ==
    15 * Occurring(HIGH_KEYWORDS, ScoredText)
    + 5 * Occurring(MEDIUM_KEYWORDS, ScoredText)
    - 10 * Occurring(NEGATIVE_KEYWORDS, ScoredText)
    + (IF \E i \in DOMAIN inp.cpv_codes : \E p \in {"72", "48", "302", "642"} :
             StartsWith(inp.cpv_codes[i].code, p)
       THEN 25 ELSE 0)

\* C2: score_tender returns min(100, max(0, 15*H + 5*M - 10*N + B)) with H, M, N
\* the numbers of high, medium and negative keywords occurring at least once in
\* title+description and B = 25 iff some CPV code starts with an IT prefix; so
\* the score lies in 0..100.
C2_ScoreIsClampedSum ==
    pc = "score_tender" =>
        /\ out.score = Min2(100, Max2(0, RawScore))
        /\ out.score >= 0
        /\ out.score <= 100

\* C2 witness: a tender whose weights sum to more than 100 and is scored 100
C2_Witness == pc = "score_tender" /\ RawScore > 100 /\ out.score = 100

\* C3: the tier is a function of the clamped score alone: hoog iff score >= 50,
\* midden iff 20 <= score <= 49, laag iff score < 20.
C3_LevelFromScore ==
    pc = "score_tender" =>
        /\ out.level = "hoog" <=> out.score >= 50
        /\ out.level = "midden" <=> (out.score >= 20 /\ out.score <= 49)
        /\ out.level = "laag" <=> out.score < 20

\* C3 witness: a tender scored exactly 50, the lowest score of the tier hoog
C3_Witness == pc = "score_tender" /\ out.score = 50 /\ out.level = "hoog"

\* C4: for every title, description, 8-digit code c and check digit d,
\* score_tender on [c] equals score_tender on [c-d], and matches_cpv(c) equals
\* matches_cpv(c-d).
C4_CheckDigitInvariance ==
    /\ pc = "score_check_digit" => out.plain = out.suffixed
    /\ pc = "matches_check_digit" => out.plain = out.suffixed

\* C4 witness: a code that earns the CPV bonus, scored with a check digit
C4_Witness ==
    /\ pc = "score_check_digit"
    /\ out.suffixed.cpv_bonus = 25
    /\ inp.code = "30200000"
    /\ inp.digit = "1"

\* the first '-' and what follows removed, then the surrounding blanks
Cleaned(code) == Strip(SplitFirst(code, "-"))

\* C5: matches_cpv(code) is True iff the cleaned code is a reference code, or its
\* first 3 digits are those of a reference code ending in 00000; every other
\* code, such as one of division 45 or 99, gives False.
C5_MatchesCpvRule ==
    pc = "matches_cpv" =>
        /\ out <=>
              \/ Cleaned(inp.code) \in CPV_CODE_SET
              \/ /\ Len(Cleaned(inp.code)) >= 3
                 /\ \E ref \in CPV_CODE_SET :
                       /\ SubSeq(ref, 4, 8) = "00000"
                       /\ Take(Cleaned(inp.code), 3) = Take(ref, 3)
        /\ Take(Cleaned(inp.code), 2) \in {"45", "99"} => ~out
        /\ Take(Cleaned(inp.code), 3) \in {"301", "641", "791", "501"} => ~out

\* C5 witness: a code outside the reference set accepted by the parent rule
C5_Witness ==
    /\ pc = "matches_cpv"
    /\ inp.code = "72413000-8"
    /\ Cleaned(inp.code) \notin CPV_CODE_SET
    /\ out

(***************************************************************************)
(* SpecSegments: calls of detect_segments and of the two text matchers     *)
(***************************************************************************)

SegTitles == {"", "Firewall"}

SegFragments ==
    {"hosting", "pentest", "werkplek", "Sociale dienst", "rapportage", "Zaaksysteem"}

SegDescriptions == {JoinWords(w) : w \in SeqUpTo(SegFragments, MaxWords)}

SegCodes == {"48730000-4", "72400000", "45000000-7"}

SegCpvLists == {[i \in DOMAIN l |-> CpvEntry(l[i])] : l \in SeqUpTo(SegCodes, MaxCpv)}

\* the keyword lists detect_segments hands to _text_has_any, and one-keyword lists
MatcherKeywordLists ==
    {SEGMENTS[i].strong : i \in DOMAIN SEGMENTS}
    \cup {SEGMENTS[i].weak : i \in DOMAIN SEGMENTS}
    \cup {<< kw >> : kw \in {"soc", "SOC", "lan", "bi", "erp", "hosting", "Pentest"}}

MatcherTexts ==
    {"", "Sociale dienst", "het SOC team", "soc", "Planning BI-omgeving", "HERP DERP",
     "Hosting en pentest", "erp", "wlan/lan", "bi_tool"}

CallDetectSegments ==
    /\ pc = "idle"
    /\ UNCHANGED world
    /\ \E t \in SegTitles, d \in SegDescriptions, c \in SegCpvLists :
          /\ inp' = [naam |-> t, beschrijving |-> d, cpv_codes |-> c]
          /\ out' = detect_segments(t, d, c)
    /\ pc' = "detect_segments"

CallTextHasAny ==
    /\ pc = "idle"
    /\ UNCHANGED world
    /\ \E t \in MatcherTexts, k \in MatcherKeywordLists :
          /\ inp' = [text |-> t, keywords |-> k]
          /\ out' = _text_has_any(t, k)
    /\ pc' = "_text_has_any"

\* main.py lines 531 and 543-548: match_segments hands keyword_in_text the
\* lower-cased text
CallKeywordInText ==
    /\ pc = "idle"
    /\ UNCHANGED world
    /\ \E t \in MatcherTexts, k \in MatcherKeywordLists :
          /\ Len(k) = 1
          /\ inp' = [text |-> t, keywords |-> k]
          /\ out' = keyword_in_text(k[1], lower(t))
    /\ pc' = "keyword_in_text"

NextSegments ==
    \/ CallDetectSegments
    \/ CallTextHasAny
    \/ CallKeywordInText
    \/ Return

SpecSegments == InitIdle /\ [][NextSegments]_vars

(***************************************************************************)
(* Segment detection and the text matcher                                  *)
(***************************************************************************)

\* the elements of a sequence
Range(q) == {q[i] : i \in DOMAIN q}

\* the text detect_segments was called on, lower-cased
SegText == lower(inp.naam \o " " \o inp.beschrijving)

\* some keyword of the list occurs in the lower-cased text
HasKeyword(keywords, ltext) == \E i \in DOMAIN keywords : Contains(ltext, lower(keywords[i]))

\* some CPV code of the call, without check digit, starts with a code of the list
HasCpv(prefixes) ==
    \E i \in DOMAIN inp.cpv_codes : \E k \in DOMAIN prefixes :
        StartsWith(SplitFirst(inp.cpv_codes[i].code, "-"), prefixes[k])

\* C6: detect_segments assigns a base segment iff the segment has a strong
\* keyword in title+description or a tender CPV code prefix-matches the segment's
\* CPV list; a CPV match alone suffices and a weak keyword alone never assigns.
C6_StrongOrCpv ==
    pc = "detect_segments" =>
        \A i \in DOMAIN SEGMENTS :
            /\ SEGMENTS[i].label \in Range(out) <=>
                  (HasKeyword(SEGMENTS[i].strong, SegText) \/ HasCpv(SEGMENTS[i].cpv))
            /\ HasCpv(SEGMENTS[i].cpv) => SEGMENTS[i].label \in Range(out)
            /\ ( /\ HasKeyword(SEGMENTS[i].weak, SegText)
                 /\ ~HasKeyword(SEGMENTS[i].strong, SegText)
                 /\ ~HasCpv(SEGMENTS[i].cpv) ) => SEGMENTS[i].label \notin Range(out)

\* C6 witness: Cybersecurity assigned by its CPV code alone while Werkplek, with
\* only a weak keyword, is not assigned
C6_Witness ==
    /\ pc = "detect_segments"
    /\ inp.naam = ""
    /\ inp.beschrijving = "werkplek"
    /\ HasCpv(SEGMENTS[3].cpv)
    /\ ~HasKeyword(SEGMENTS[3].strong, SegText)
    /\ ~HasKeyword(SEGMENTS[3].weak, SegText)
    /\ out = << "Cybersecurity" >>

\* the base segments of a result, in the order of the result
BaseOf(result) == SelectSeq(result, LAMBDA l : l # "Full-service")

\* the declaration index of a base segment label
SegmentIndex(l) == CHOOSE i \in DOMAIN SEGMENTS : SEGMENTS[i].label = l

\* C7: the result contains Full-service iff at least 3 of the six base segments
\* were assigned; then it occurs once and last, after the base segments in
\* their declaration order.
C7_FullService ==
    pc = "detect_segments" =>
        LET base == BaseOf(out)
        IN  /\ "Full-service" \in Range(out) <=> Len(base) >= 3
            /\ Len(out) - Len(base) <= 1
            /\ "Full-service" \in Range(out) => out[Len(out)] = "Full-service"
            /\ \A i \in DOMAIN base : \E k \in DOMAIN SEGMENTS : SEGMENTS[k].label = base[i]
            /\ \A i, j \in DOMAIN base :
                   i < j => SegmentIndex(base[i]) < SegmentIndex(base[j])

\* C7 witness: exactly 3 base segments, followed by the synthetic label
C7_Witness ==
    /\ pc = "detect_segments"
    /\ Len(out) = 4
    /\ out[4] = "Full-service"
    /\ Len(BaseOf(out)) = 3

\* kw occurs in text with no word character next to it on either side
OccursAsWord(kw, text) ==
    \E i \in 1..(Len(text) - Len(kw) + 1) :
        /\ At(text, i, kw)
        /\ ~WordAt(text, i - 1)
        /\ ~WordAt(text, i + Len(kw))

\* the matcher of the specification: keywords of at most 4 characters as whole
\* words, longer ones as substrings, both case-insensitively
SpecifiedMatch(keywords, text) ==
    \E i \in DOMAIN keywords :
        IF Len(keywords[i]) <= 4
        THEN OccursAsWord(lower(keywords[i]), lower(text))
        ELSE Contains(lower(text), lower(keywords[i]))

\* C8: the text matcher of segment detection and the other rule components is
\* case-insensitive, matches a keyword of at most 4 characters only as a whole
\* word and a longer keyword as a substring.
C8_ShortKeywordsWholeWord ==
    pc = "_text_has_any" => (out <=> SpecifiedMatch(inp.keywords, inp.text))

\* the matcher of main.py does what C8 says
KeywordInTextWholeWord ==
    pc = "keyword_in_text" => (out <=> SpecifiedMatch(inp.keywords, inp.text))

\* segments.py's matcher is case-insensitive substring matching
TextHasAnyIsSubstring ==
    pc = "_text_has_any" => (out <=> HasKeyword(inp.keywords, lower(inp.text)))


(***************************************************************************)
(* SpecClient: calls of classify_opdrachtgever and                         *)
(* get_expected_requirements                                               *)
(***************************************************************************)

ClientFragments ==
    { "Gemeente", "Provincie", "GR", "RWS", "Stichting", "Onderwijs", "DUO",
      "Waterschap", "Ministerie", "Ziekenhuis", "EMCO", "Hogeschool",
      "Browsergroep" }

\* client names: up to MaxWords fragments separated by blanks
ClientNames == { JoinWords(ws) : ws \in SeqUpTo(ClientFragments, MaxWords) }

ClientSegmentLists ==
    { << >>, << "Cybersecurity" >>, << "Cloud & Hosting" >>,
      << "Werkplek & Eindgebruikersbeheer", "Cybersecurity" >> }

CallClassifyOpdrachtgever ==
    /\ pc = "idle"
    /\ UNCHANGED world
    /\ \E name \in ClientNames :
          /\ inp' = [opdrachtgever |-> name]
          /\ out' = classify_opdrachtgever(name)
    /\ pc' = "classify_opdrachtgever"

CallGetExpectedRequirements ==
    /\ pc = "idle"
    /\ UNCHANGED world
    /\ \E name \in ClientNames, segs \in ClientSegmentLists :
          /\ inp' = [opdrachtgever |-> name, segments |-> segs]
          /\ out' = get_expected_requirements(name, segs)
    /\ pc' = "get_expected_requirements"

\* the client types classify_opdrachtgever of the single-file variant returns
OgTypes == DOMAIN VERWACHTE_VEREISTEN \cup {"OVERIG"}

SegmentenLists ==
    { << >>, << "Cybersecurity & Informatiebeveiliging" >>, << "Cloud & Hosting" >>,
      << "Werkplek & Eindgebruikersbeheer", "Cybersecurity & Informatiebeveiliging" >> }

CallGetVerwachteVereisten ==
    /\ pc = "idle"
    /\ UNCHANGED world
    /\ \E og_type \in OgTypes, segmenten \in SegmentenLists :
          /\ inp' = [og_type |-> og_type, segmenten |-> segmenten]
          /\ out' = get_verwachte_vereisten(og_type, segmenten)
    /\ pc' = "get_verwachte_vereisten"

NextClient ==
    \/ CallClassifyOpdrachtgever
    \/ CallGetExpectedRequirements
    \/ CallGetVerwachteVereisten
    \/ Return

SpecClient == InitIdle /\ [][NextClient]_vars

(***************************************************************************)
(* Client type and expected requirements                                   *)
(***************************************************************************)

\* the classification rules in the order the classifier tries them: the three
\* special patterns, then the keyword rules in declaration order
RuleCount == 3 + Len(OPDRACHTGEVER_RULES)

RuleCategory(k) ==
    CASE k = 1 -> "RIJK_VITAAL"
      [] k = 2 -> "GR"
      [] k = 3 -> "ONDERWIJS"
      [] OTHER -> OPDRACHTGEVER_RULES[k - 3].category

RuleMatches(k, name) ==
    CASE k = 1 -> rws_search(name)
      [] k = 2 -> gr_prefix_search(name)
      [] k = 3 -> stichting_onderwijs_search(name)
      [] OTHER -> \E i \in DOMAIN OPDRACHTGEVER_RULES[k - 3].keywords :
                      Contains(lower(name), OPDRACHTGEVER_RULES[k - 3].keywords[i])

MatchingRules(name) == {k \in 1..RuleCount : RuleMatches(k, name)}

\* C9: the client type is the category of the first rule, in the classifier's
\* order (whole-word RWS, the GR prefix, stichting with onderwijs, then the
\* keyword rules as declared), that matches the name; a later, more generic
\* rule never decides when an earlier one matches; OVERIG exactly when no rule
\* matches.
C9_FirstMatchWins ==
    pc = "classify_opdrachtgever" =>
        LET m == MatchingRules(inp.opdrachtgever)
        IN  /\ (m = {}) <=> (out = "OVERIG")
            /\ \A k \in m :
                  (\A q \in m : k <= q) => out = RuleCategory(k)

\* a name matched by the GR prefix and by the later GEMEENTE keyword rule
C9_Witness ==
    /\ pc = "classify_opdrachtgever"
    /\ inp.opdrachtgever = "GR Gemeente"
    /\ RuleMatches(2, inp.opdrachtgever)
    /\ \E k \in 4..RuleCount :
          RuleMatches(k, inp.opdrachtgever) /\ RuleCategory(k) = "GEMEENTE"
    /\ out = "GR"

HasSegment(segs, label) == \E i \in DOMAIN segs : segs[i] = label

StaticRequirements(category) ==
    IF category \in DOMAIN EXPECTED_REQUIREMENTS
    THEN Range(EXPECTED_REQUIREMENTS[category]) ELSE {}

StaticLevels(og_type) ==
    IF og_type \in DOMAIN VERWACHTE_VEREISTEN
    THEN Range(VERWACHTE_VEREISTEN[og_type]) ELSE {}

\* the upgrade rule for a result computed from the entries static, for a client
\* type category and with or without the Cybersecurity segment
UpgradeRule(category, cyber, static, result) ==
    /\ (cyber /\ category # "OVERIG") =>
          \E r \in result :
              /\ r.name = "ISO 27001"
              /\ LEVEL_PRIORITY[r.level] >= LEVEL_PRIORITY["waarschijnlijk"]
    /\ category = "OVERIG" => result = {}
    /\ \A s \in static :
          \E r \in result :
              /\ r.name = s.name
              /\ LEVEL_PRIORITY[r.level] >= LEVEL_PRIORITY[s.level]
    /\ \A r \in result : r.name # "ISO 27001" => r \in static
    /\ \A s \in static : s.name # "ISO 27001" => s \in result
    /\ ~cyber => result = static

\* get_expected_requirements of app/segments.py follows the upgrade rule
ExpectedRequirementsUpgrade ==
    pc = "get_expected_requirements" =>
        LET category == classify_opdrachtgever(inp.opdrachtgever)
        IN  UpgradeRule(category, HasSegment(inp.segments, "Cybersecurity"),
                        StaticRequirements(category), Range(out))

\* get_verwachte_vereisten of the single-file variant follows the upgrade rule
VerwachteVereistenUpgrade ==
    pc = "get_verwachte_vereisten" =>
        UpgradeRule(inp.og_type,
                    HasSegment(inp.segmenten, "Cybersecurity & Informatiebeveiliging"),
                    StaticLevels(inp.og_type), Range(out))

\* C10: with the Cybersecurity segment and a client type other than OVERIG the
\* expected requirements hold ISO 27001 at waarschijnlijk or higher; for OVERIG
\* nothing is inserted; no level of the static table is lowered and every entry
\* other than ISO 27001 is the static entry of the client type.
C10_CyberUpgrade == ExpectedRequirementsUpgrade /\ VerwachteVereistenUpgrade

\* an education client with the Cybersecurity segment: ISO 27001 is raised
\* from mogelijk to waarschijnlijk
EducationUpgraded ==
    /\ pc = "get_expected_requirements"
    /\ HasSegment(inp.segments, "Cybersecurity")
    /\ classify_opdrachtgever(inp.opdrachtgever) = "ONDERWIJS"
    /\ \E s \in StaticRequirements("ONDERWIJS") :
          s.name = "ISO 27001" /\ s.level = "mogelijk"
    /\ \E i \in DOMAIN out :
          out[i].name = "ISO 27001" /\ out[i].level = "waarschijnlijk"


\* C11: for every client name and segment list the expected requirements
\* never hold two entries with the same certification name.
C11_NoDuplicateNames ==
    pc = "get_expected_requirements" =>
        \A i \in DOMAIN out, j \in DOMAIN out : out[i].name = out[j].name => i = j

\* a client whose table holds ISO 27001, with the Cybersecurity segment: the
\* upgrade meets the existing entry and the result holds it once
C11_Witness ==
    /\ pc = "get_expected_requirements"
    /\ HasSegment(inp.segments, "Cybersecurity")
    /\ \E s \in StaticRequirements(classify_opdrachtgever(inp.opdrachtgever)) :
          s.name = "ISO 27001"
    /\ Cardinality({i \in DOMAIN out : out[i].name = "ISO 27001"}) = 1
    /\ Len(out) >= 2

(***************************************************************************)
(* SpecFit: calls of score_msp_fit                                         *)
(***************************************************************************)

FitTitles == {"", "Backup"}

FitFragments == {"storage", "zaaksysteem", "monitoring", "glasvezel", "AFAS", "meubilair"}

FitDescriptions == { JoinWords(ws) : ws \in SeqUpTo(FitFragments, MaxWords) }

FitContractTypes == Optional({"", "Diensten", "Leveringen"})

FitClientTypes == {"GEMEENTE", "ZORG", "OVERIG"}

CallScoreMspFit ==
    /\ pc = "idle"
    /\ UNCHANGED world
    /\ \E n \in FitTitles, b \in FitDescriptions, t \in FitContractTypes,
          og \in FitClientTypes :
          /\ inp' = [tender_naam |-> n, beschrijving |-> b, type_opdracht |-> t,
                     opdrachtgever_type |-> og, segments |-> << >>]
          /\ out' = score_msp_fit(n, b, t, og, << >>)
    /\ pc' = "score_msp_fit"

FitTenderTexts == {"", "storage", "Burgerzaken", "Hosting burgerzaken", "cctv en cloud"}

FitTypeCodes == Optional({[code |-> "D"], [code |-> "L"], [omschrijving |-> "Werken"]})

FitSegmentenLists ==
    { << >>, << "Cloud & Hosting", "Data & BI" >>,
      << "Cloud & Hosting", "Full-service IT-partner" >> }

CallCalculateMspFit ==
    /\ pc = "idle"
    /\ UNCHANGED world
    /\ \E n \in FitTenderTexts, b \in FitTenderTexts, t \in FitTypeCodes,
          og \in FitClientTypes, segs \in FitSegmentenLists :
          /\ inp' = [tender |-> Field("aanbestedingNaam", Some(n))
                                 @@ Field("opdrachtBeschrijving", Some(b))
                                 @@ Field("typeOpdracht", t),
                     og_type |-> og, segmenten |-> segs]
          /\ out' = calculate_msp_fit(inp'.tender, og, segs)
    /\ pc' = "calculate_msp_fit"

NextFit ==
    \/ CallScoreMspFit
    \/ CallCalculateMspFit
    \/ Return

SpecFit == InitIdle /\ [][NextFit]_vars

(***************************************************************************)
(* The MSP-fit score                                                       *)
(***************************************************************************)

\* the text score_msp_fit was called on, lower-cased
FitText == lower(inp.tender_naam \o " " \o inp.beschrijving)

IsServices ==
    /\ inp.type_opdracht # None
    /\ Contains(lower(inp.type_opdracht[1]), "diensten")

Weight(fired, w) == IF fired THEN w ELSE 0

\* the weights of the rules other than the infrastructure bonus that fire
OtherWeights ==
      Weight(IsServices, 10)
    + Weight(HasKeyword(_MSP_MANAGED, FitText), 15)
    + Weight(inp.opdrachtgever_type \in {"GEMEENTE", "PROVINCIE", "WATERSCHAP", "GR"}, 10)
    - Weight(HasKeyword(_SOFTWARE_DELIVERY, FitText), 25)
    - Weight(HasKeyword(_PHYSICAL_INFRA, FitText), 25)
    - Weight(HasKeyword(_NICHE_SOFTWARE, FitText), 25)

\* the text calculate_msp_fit was called on
VariantText ==
    lower(Get(inp.tender, "aanbestedingNaam", "")) \o " "
        \o lower(Get(inp.tender, "opdrachtBeschrijving", ""))

VariantTypeCode == Get(Get(inp.tender, "typeOpdracht", << >>), "code", "")

\* the weights of the rules of calculate_msp_fit that fire, the core bonus
\* only without an application-software indicator
VariantWeights ==
      Weight(VariantTypeCode = "D", 20)
    + Weight(/\ any_in(msp_core, VariantText)
             /\ ~any_in(APP_SOFTWARE_INDICATORS, VariantText), 15)
    + Weight(inp.og_type \in {"GEMEENTE", "PROVINCIE", "WATERSCHAP", "GR"}, 10)
    + Weight(Cardinality({i \in DOMAIN inp.segmenten :
                             inp.segmenten[i] # "Full-service IT-partner"}) >= 2, 5)
    - Weight(any_in(APP_SOFTWARE_INDICATORS, VariantText), 25)
    - Weight(any_in(PHYSICAL_INFRA_INDICATORS, VariantText), 10)
    - Weight(VariantTypeCode = "L", 10)

\* score_msp_fit grants the infrastructure bonus only without a
\* software-product-delivery indicator
ScoreMspFitExcludes ==
    pc = "score_msp_fit" =>
        out.score = OtherWeights
                  + Weight(/\ HasKeyword(_MSP_INFRA, FitText)
                           /\ ~HasKeyword(_SOFTWARE_DELIVERY, FitText), 15)

\* calculate_msp_fit grants the core bonus only without an
\* application-software indicator
CalculateMspFitExcludes == pc = "calculate_msp_fit" => out[1] = VariantWeights

\* C12: when a software-product-delivery indicator matches the text, the +15
\* infrastructure bonus is withheld (and the -25 penalty applied), whatever
\* infrastructure words the text holds; without such an indicator the bonus
\* is granted exactly when an infrastructure keyword matches.
C12_InfraBonusExcludesDelivery == ScoreMspFitExcludes /\ CalculateMspFitExcludes

\* the tier as a function of the score
TierOf(score, level) ==
    /\ (level = "MSP-relevant") <=> (score > 20)
    /\ (level = "Mogelijk relevant") <=> (score >= 0 /\ score <= 20)
    /\ (level = "Niet MSP") <=> (score < 0)

\* C13: the score is the sum of the weights of the rules that fire, neither
\* clamped below nor above, and the tier depends on it alone: MSP-relevant
\* iff score > 20, Mogelijk relevant iff 0 <= score <= 20, Niet MSP iff
\* score < 0.
C13_PlainSumAndTier ==
    /\ pc = "score_msp_fit" =>
          /\ out.score = OtherWeights + Weight(HasKeyword(_MSP_INFRA, FitText), 15)
          /\ TierOf(out.score, out.level)
    /\ pc = "calculate_msp_fit" =>
          /\ out[1] = VariantWeights
          /\ TierOf(out[1], out[2])

\* penalties without a bonus: the score is below -25, not clamped at 0
C13_Witness ==
    /\ pc = "score_msp_fit"
    /\ out.score < -25
    /\ out.level = "Niet MSP"

(***************************************************************************)
(* SpecValue: calls of the value estimators                                *)
(***************************************************************************)

MaxSegments == 2

ValueSegmentLabels == {"Cloud & Hosting", "Data & BI", "Full-service", "Onbekend"}

ValueSegmentLists == SeqUpTo(ValueSegmentLabels, MaxSegments)

ValueContractTypes == Optional({"Diensten", "Werken", "Leveringen"})

ValueClientTypes == DOMAIN EXPECTED_REQUIREMENTS \cup {"OVERIG"}

CallEstimateValue ==
    /\ pc = "idle"
    /\ UNCHANGED world
    /\ \E e \in BOOLEAN, t \in ValueContractTypes, og \in ValueClientTypes,
          segs \in ValueSegmentLists :
          /\ inp' = [europees |-> e, type_opdracht |-> t, opdrachtgever_type |-> og,
                     segments |-> segs]
          /\ out' = estimate_value(e, t, og, segs, "", "")
    /\ pc' = "estimate_value"

SchatStatedValues ==
    Optional({[num |-> 250000], [num |-> 1200000], [num |-> 0], [num |-> -5],
              [str |-> "250000"]})

SchatTexts == {"", "Cloud hosting", "Burgerzaken"}

SchatTypes == Optional({[code |-> "W", omschrijving |-> "Werken"]})

CallSchatWaarde ==
    /\ pc = "idle"
    /\ UNCHANGED world
    /\ \E v \in SchatStatedValues, d \in SchatStatedValues, e \in Optional(BOOLEAN),
          n \in SchatTexts, t \in SchatTypes, og \in ValueClientTypes :
          /\ d = None \/ v \in {None, Some([num |-> 0])}
          /\ inp' = [tender |-> Field("geraamdeWaarde", v)
                                 @@ Field("aanbestedingDetail",
                                          IF d = None THEN None
                                          ELSE Some(Field("geraamdeWaarde", d)))
                                 @@ Field("europees", e)
                                 @@ Field("aanbestedingNaam", Some(n))
                                 @@ Field("typeOpdracht", t),
                     og_type |-> og, segmenten |-> << >>]
          /\ out' = schat_waarde(inp'.tender, og, << >>)
    /\ pc' = "schat_waarde"

NextValue ==
    \/ CallEstimateValue
    \/ CallSchatWaarde
    \/ Return

SpecValue == InitIdle /\ [][NextValue]_vars

(***************************************************************************)
(* The value estimate                                                      *)
(***************************************************************************)

\* the value categories of the detected segments, "infra" when none maps
\* (lines 478-490 of app/segments.py)
DetectedCategories(segments) ==
    LET mapped == {_SEGMENT_CATEGORIES[segments[i]] :
                      i \in {j \in DOMAIN segments :
                                segments[j] \in DOMAIN _SEGMENT_CATEGORIES}}
    IN  IF mapped = {} THEN {"infra"} ELSE mapped

NoSegmentMaps(segments) ==
    \A i \in DOMAIN segments : segments[i] \notin DOMAIN _SEGMENT_CATEGORIES

\* the table ranges of a client type and its detected categories
TableRanges(og, segments) ==
    {_VALUE_MATRIX[k] :
        k \in {<< og, cat >> : cat \in DetectedCategories(segments)}
                 \cap DOMAIN _VALUE_MATRIX}

TableMin(og, segments) == MinOf({r[1] : r \in TableRanges(og, segments)})

TableMax(og, segments) == MaxOf({r[2] : r \in TableRanges(og, segments)})

\* the statutory threshold of the contract-type family of an optional
\* contract type
StatutoryThreshold(type_opdracht) ==
    IF type_opdracht # None /\ Contains(lower(type_opdracht[1]), "werken")
    THEN 5538000 ELSE 221000

\* the contract type of a raw tender of the single-file variant
SchatContractType(tender) ==
    IF "typeOpdracht" \in DOMAIN tender
    THEN Some(tender["typeOpdracht"].omschrijving) ELSE None

\* the raw tender states a value that is a positive number
StatedPositive(tender) ==
    LET geraamd == geraamd_of(tender)
    IN  geraamd # None /\ "num" \in DOMAIN geraamd[1] /\ geraamd[1].num > 0

EstimateValueNumeric ==
    pc = "estimate_value" /\ out.min_value # None /\ out.max_value # None

SchatWaardeNumeric == pc = "schat_waarde" /\ out[1] # None /\ out[2] # None

\* C14: whenever a value estimator returns a numeric range, its minimum is at
\* most its maximum, for every EU flag, contract type, client type and segment
\* set; when the EU floor exceeds the maximum of the table, the maximum is
\* widened to a multiple of the floor.
C14_MinAtMostMax ==
    /\ EstimateValueNumeric => out.min_value[1] <= out.max_value[1]
    /\ SchatWaardeNumeric => out[1][1] <= out[2][1]
    /\ (EstimateValueNumeric /\ inp.europees
          /\ StatutoryThreshold(inp.type_opdracht)
                > TableMax(inp.opdrachtgever_type, inp.segments))
        => /\ out.min_value[1] = StatutoryThreshold(inp.type_opdracht)
           /\ out.max_value[1] = EU_WIDEN_FACTOR * out.min_value[1]

\* an EU-published works tender: the floor of 5,538,000
\* exceeds the table maximum and the maximum is widened to 16,614,000
C14_Witness ==
    /\ EstimateValueNumeric
    /\ inp.europees
    /\ inp.type_opdracht = Some("Werken")
    /\ TableMax(inp.opdrachtgever_type, inp.segments) < 5538000
    /\ out.max_value = Some(16614000)

\* estimate_value of app/segments.py floors the minimum of an EU-published
\* tender at the threshold of its contract type and returns the union of the
\* table ranges otherwise
EstimateValueFloors ==
    EstimateValueNumeric =>
        IF inp.europees
        THEN out.min_value[1] >= StatutoryThreshold(inp.type_opdracht)
        ELSE /\ out.min_value[1] = TableMin(inp.opdrachtgever_type, inp.segments)
             /\ out.max_value[1] = TableMax(inp.opdrachtgever_type, inp.segments)

\* schat_waarde of main.py does the same for an estimate from its table
SchatWaardeFloors ==
    (pc = "schat_waarde" /\ out[1] # None /\ out[3] = "bandbreedte"
        /\ Get(inp.tender, "europees", FALSE))
    => out[1][1] >= StatutoryThreshold(SchatContractType(inp.tender))

\* C15: when the tender is EU-published and the estimate is numeric, the
\* minimum is at least the statutory threshold of the contract-type family,
\* 5,538,000 for works and 221,000 otherwise; when the tender is not
\* EU-published the range is the union of the table ranges of the detected
\* categories.
C15_EuFloorAndTableUnion == EstimateValueFloors /\ SchatWaardeFloors

\* estimate_value returns the unknown result when no segment maps and the
\* client type is OVERIG
EstimateValueUnknown ==
    (pc = "estimate_value" /\ NoSegmentMaps(inp.segments)
        /\ inp.opdrachtgever_type = "OVERIG")
    => out = [min_value |-> None, max_value |-> None, display |-> "?",
              confidence |-> "laag"]

\* schat_waarde does so for a tender without a stated value
SchatWaardeUnknown ==
    (pc = "schat_waarde" /\ NoSegmentMaps(inp.segmenten) /\ inp.og_type = "OVERIG"
        /\ ~StatedPositive(inp.tender))
    => out = << None, None, "onbekend", "?" >>

\* C16: if no detected segment maps to a value category and the client type
\* is OVERIG, the value estimator returns the unknown result (minimum and
\* maximum absent, display "?", low confidence) for every EU flag and contract
\* type, and never a numeric bound.
C16_UnknownForOverig == EstimateValueUnknown /\ SchatWaardeUnknown

\* schat_waarde returns a stated positive value as an exact point estimate,
\* whatever the client type and the EU flag, and only then
SchatWaardeStatedExact ==
    pc = "schat_waarde" =>
        IF StatedPositive(inp.tender)
        THEN /\ out[1] = Some(geraamd_of(inp.tender)[1].num)
             /\ out[2] = out[1]
             /\ out[3] = "exact"
        ELSE out[3] # "exact"

(* SpecSignals: the signal detectors on the values the pipelines hand them *)
(***************************************************************************)

SignalTexts ==
    {"", "Hosting zaaksysteem", "Beheer werkplekken", "Transitie huidige leverancier"}

SignalClients == {"Gemeente Ede", "Stichting Leerplein", "Belastingdienst"}

SignalContractTypes == Optional({"Diensten", "Leveringen"})

SignalSegmentLists ==
    SeqUpTo({"Werkplek & Eindgebruikersbeheer", "Cloud & Hosting", "Cybersecurity"},
            MaxSegments)

\* lines 176-189 of _format_tender: detect_signals on the values of the
\* earlier stages; msp_fit_score is the score of score_msp_fit, which
\* _format_tender passes along
CallDetectSignals ==
    /\ pc = "idle"
    /\ UNCHANGED world
    /\ \E n \in SignalTexts, o \in SignalClients, t \in SignalContractTypes,
          e \in BOOLEAN, segs \in SignalSegmentLists :
          LET og_type == classify_opdrachtgever(o)
              expected_reqs == get_expected_requirements(o, segs)
              msp_fit == score_msp_fit(n, "", t, og_type, segs)
              geschatte_waarde == estimate_value(e, t, og_type, segs, n, "")
          IN  /\ inp' = [naam |-> n, beschrijving |-> "", opdrachtgever |-> o,
                         opdrachtgever_type |-> og_type, type_opdracht |-> t,
                         europees |-> e, segments |-> segs,
                         expected_requirements |-> expected_reqs,
                         estimated_value |-> geschatte_waarde,
                         msp_fit_score |-> msp_fit.score]
              /\ out' = detect_signals(n, "", o, og_type, t, e, segs, << >>,
                                       expected_reqs, geschatte_waarde)
    /\ pc' = "detect_signals"

SignaalTypeCodes == Optional({[code |-> "D"], [code |-> "L"]})

SignaalClientTypes == {"GEMEENTE", "GR", "RIJK", "ONDERWIJS", "OVERIG"}

SignaalSegmentenLists ==
    SeqUpTo({"Werkplek & Eindgebruikersbeheer", "Cloud & Hosting",
             "Cybersecurity & Informatiebeveiliging"}, MaxSegments)

\* lines 916-923 of enrich_tender: detect_signalen on the values of the
\* earlier steps
CallDetectSignalen ==
    /\ pc = "idle"
    /\ UNCHANGED world
    /\ \E n \in SignalTexts, t \in SignaalTypeCodes, e \in Optional({TRUE}),
          og \in SignaalClientTypes, segs \in SignaalSegmentenLists :
          LET tender == Field("aanbestedingNaam", Some(n)) @@ Field("typeOpdracht", t)
                            @@ Field("europees", e)
              verwacht == get_verwachte_vereisten(og, segs)
              msp == calculate_msp_fit(tender, og, segs)
              waarde == schat_waarde(tender, og, segs)
          IN  /\ inp' = [tender |-> tender, og_type |-> og, segmenten |-> segs,
                         vereisten |-> verwacht, waarde_min |-> waarde[1],
                         waarde_max |-> waarde[2], msp_fit_score |-> msp[1]]
              /\ out' = detect_signalen(tender, og, segs, verwacht, waarde[1],
                                        waarde[2], msp[1])
    /\ pc' = "detect_signalen"

NextSignals ==
    \/ CallDetectSignals
    \/ CallDetectSignalen
    \/ Return

SpecSignals == InitIdle /\ [][NextSignals]_vars

(***************************************************************************)
(* The opportunity signals                                                 *)
(***************************************************************************)

\* a software-product-delivery indicator matches the text of the tender
SoftwareDeliveryMatches ==
    _text_has_any(inp.naam \o " " \o inp.beschrijving, _SOFTWARE_DELIVERY)

AppSoftwareMatches ==
    any_in(APP_SOFTWARE_INDICATORS,
           lower(Get(inp.tender, "aanbestedingNaam", "")) \o " "
               \o lower(Get(inp.tender, "opdrachtBeschrijving", "")))

\* detect_signals of app/segments.py emits no opportunity signal when the
\* MSP-fit score is below 0 or a software-product-delivery indicator matches
DetectSignalsGated ==
    (pc = "detect_signals" /\ (inp.msp_fit_score < 0 \/ SoftwareDeliveryMatches))
    => \A i \in DOMAIN out : out[i].type # "msp-kans"

\* detect_signalen of main.py emits, in that case, no opportunity signal but
\* the one of the independent rule
DetectSignalenGated ==
    (pc = "detect_signalen" /\ (inp.msp_fit_score < 0 \/ AppSoftwareMatches))
    => \A i \in DOMAIN out :
          out[i].type = "kans" =>
              /\ StartsWith(out[i].tekst, "MSP-relevant met")
              /\ inp.msp_fit_score > 20
              /\ inp.waarde_min # None
              /\ inp.waarde_min[1] >= 500000

\* C18: the signal detector emits no opportunity signal of the sweet-spot or
\* cloud-at-government-client kind when the MSP-fit score is below 0 or when a
\* software-product-delivery indicator matches the text; only the independent
\* rule (tier relevant and minimum value of at least 500K) emits an
\* opportunity outside that gate.
C18_OpportunityGate == DetectSignalsGated /\ DetectSignalenGated

(***************************************************************************)
(* SpecCerts: detect_certifications on bounded texts                       *)
(***************************************************************************)

CertTitles == {"", "Informatiebeveiliging gemeente"}

CertFragments ==
    {"ISO 27001", "NEN7510", "informatiebeveiliging", "zorg", "BIO", "biologie",
     "SOC 2"}

CertDescriptions == {JoinWords(w) : w \in SeqUpTo(CertFragments, MaxWords)}

CallDetectCertifications ==
    /\ pc = "idle"
    /\ UNCHANGED world
    /\ \E n \in CertTitles, b \in CertDescriptions :
          /\ inp' = [naam |-> n, beschrijving |-> b]
          /\ out' = detect_certifications(n, b)
    /\ pc' = "detect_certifications"

NextCerts ==
    \/ CallDetectCertifications
    \/ Return

SpecCerts == InitIdle /\ [][NextCerts]_vars

(***************************************************************************)
(* Explicit and implied certifications                                     *)
(***************************************************************************)

ExplicitNames == {CERTIFICATIONS[i].name : i \in DOMAIN CERTIFICATIONS}

ImpliedNames == {IMPLIED_CERTIFICATIONS[i].name : i \in DOMAIN IMPLIED_CERTIFICATIONS}

\* the certification an entry of the result is about
CertificationOf(entry) ==
    IF EndsWith(entry.name, "?") THEN SubSeq(entry.name, 1, Len(entry.name) - 1)
    ELSE entry.name

\* C19: detect_certifications never reports an implied entry for a
\* certification that was found explicitly in the same text; every explicit
\* hit has implied = False and its plain name, every implied hit has
\* implied = True and the name suffixed with "?", and no certification is
\* reported more than once.
C19_ImpliedMarkedAndDistinct ==
    pc = "detect_certifications" =>
        /\ \A i \in DOMAIN out :
              IF out[i].implied
              THEN /\ EndsWith(out[i].name, "?")
                   /\ CertificationOf(out[i]) \in ImpliedNames
              ELSE out[i].name \in ExplicitNames
        /\ \A i, j \in DOMAIN out :
              (~out[i].implied /\ out[j].implied)
                  => out[j].name # out[i].name \o "?"
        /\ \A i, j \in DOMAIN out :
              i # j => CertificationOf(out[i]) # CertificationOf(out[j])

\* ISO 27001 is named in a text that also speaks of informatiebeveiliging: it
\* is reported explicitly, and another certification is reported as implied
C19_Witness ==
    /\ pc = "detect_certifications"
    /\ Contains(lower(inp.naam \o " " \o inp.beschrijving), "informatiebeveilig")
    /\ \E i \in DOMAIN out : out[i].name = "ISO 27001" /\ ~out[i].implied
    /\ \E j \in DOMAIN out : out[j].implied

(***************************************************************************)
(* SpecCpv: the CPV tests on entries with and without a usable code        *)
(***************************************************************************)

\* codes that are empty or malformed, and two codes of the reference lists
CpvBadCodes == {"", "-5", "abc", "7", "72"}

CpvGoodCodes == {"72400000-4", "30200000"}

\* entries {"code": code} and the entry {} without a code
CpvEntries == {Field("code", c) : c \in Optional(CpvBadCodes \cup CpvGoodCodes)}

CpvEntryLists == SeqUpTo(CpvEntries, MaxCpv)

CpvTexts == {"", "werkplek", "cloud software", "hosting", "netwerk data", "Werkplek BI"}

CallCpvBonus ==
    /\ pc = "idle"
    /\ UNCHANGED world
    /\ \E l \in CpvEntryLists :
          /\ inp' = [cpv_codes |-> l]
          /\ out' = _cpv_bonus(l)
    /\ pc' = "_cpv_bonus"

CallMatchesCpvCode ==
    /\ pc = "idle"
    /\ UNCHANGED world
    /\ \E c \in CpvBadCodes \cup CpvGoodCodes :
          /\ inp' = [code |-> c]
          /\ out' = matches_cpv(c)
    /\ pc' = "matches_cpv"

CallCpvMatches ==
    /\ pc = "idle"
    /\ UNCHANGED world
    /\ \E l \in CpvEntryLists, s \in DOMAIN SEGMENTS :
          /\ inp' = [tender_cpv_codes |-> l, segment_cpv_prefixes |-> SEGMENTS[s].cpv]
          /\ out' = _cpv_matches(l, SEGMENTS[s].cpv)
    /\ pc' = "_cpv_matches"

CallMatchSegments ==
    /\ pc = "idle"
    /\ UNCHANGED world
    /\ \E n \in CpvTexts, l \in Optional(CpvEntryLists) :
          /\ inp' = [naam |-> n, beschrijving |-> "", cpv_codes |-> l]
          /\ out' = match_segments(n, "", l)
    /\ pc' = "match_segments"

NextCpv ==
    \/ CallCpvBonus
    \/ CallMatchesCpvCode
    \/ CallCpvMatches
    \/ CallMatchSegments
    \/ Return

SpecCpv == InitIdle /\ [][NextCpv]_vars

(***************************************************************************)
(* CPV entries without a usable code                                       *)
(***************************************************************************)

\* the code of the entry is missing or empty
NoCode(entry) == Get(entry, "code", "") = ""

\* the code is not eight digits, with or without a check digit after "-"
Malformed(code) ==
    LET digits == SplitFirst(code, "-")
    IN  \/ Len(digits) # 8
        \/ \E i \in 1..Len(digits) : Chr(digits, i) \notin AllDigits

Unusable(entry) == NoCode(entry) \/ Malformed(entry.code)

\* the tests of app/scoring.py, app/cpv_codes.py and app/segments.py do not
\* count an entry without a code, or an empty code, as a match
PipelineSkipsNoCode ==
    /\ (pc = "_cpv_bonus" /\ \A i \in DOMAIN inp.cpv_codes : NoCode(inp.cpv_codes[i]))
        => out = 0
    /\ (pc = "matches_cpv" /\ inp.code = "") => out = FALSE
    /\ (pc = "_cpv_matches"
          /\ \A i \in DOMAIN inp.tender_cpv_codes : NoCode(inp.tender_cpv_codes[i]))
        => out = FALSE

\* nor do they count a malformed code
PipelineSkipsMalformed ==
    /\ (pc = "_cpv_bonus" /\ \A i \in DOMAIN inp.cpv_codes : Unusable(inp.cpv_codes[i]))
        => out = 0
    /\ (pc = "matches_cpv" /\ Malformed(inp.code)) => out = FALSE
    /\ (pc = "_cpv_matches"
          /\ \A i \in DOMAIN inp.tender_cpv_codes : Unusable(inp.tender_cpv_codes[i]))
        => out = FALSE

\* match_segments of main.py returns, for entries without a usable code, the
\* segments it returns without CPV codes
MatchSegmentsSkips ==
    (pc = "match_segments" /\ inp.cpv_codes # None
        /\ \A i \in DOMAIN inp.cpv_codes[1] : Unusable(inp.cpv_codes[1][i]))
    => out = match_segments(inp.naam, inp.beschrijving, None)

\* C20: a CPV entry whose code is missing, empty or malformed is skipped: in
\* the relevance bonus, in matches_cpv and in the CPV-prefix match of the
\* segments it never counts as a CPV match; an empty code does not
\* prefix-match any segment or reference code.
C20_UnusableCodeSkipped ==
    PipelineSkipsNoCode /\ PipelineSkipsMalformed /\ MatchSegmentsSkips

(***************************************************************************)
(* SpecHistorie: calls of the queries on the award history                 *)
(***************************************************************************)

HistorieClients ==
    {"", "Gemeente Amsterdam", "amsterdam", "GEMEENTE", "Stichting Onderwijs",
     "onderwijs", "Provincie Utrecht", "utrecht", "e", "Waterschap"}

HistorieLimits == {0, 1, 2, 5, 20}

\* the import of the dataset puts the file in place
ImportHistorie ==
    /\ pc = "idle"
    /\ ~historie
    /\ historie' = TRUE
    /\ UNCHANGED << pc, inp, out, now, db, req >>

CallIsHistorieLoaded ==
    /\ pc = "idle"
    /\ inp' = [exists |-> historie]
    /\ out' = [loaded |-> is_historie_loaded(historie)]
    /\ pc' = "is_historie_loaded"
    /\ UNCHANGED world

CallQueryGunningshistorie ==
    /\ pc = "idle"
    /\ \E o \in HistorieClients, l \in HistorieLimits :
          LET r == query_gunningshistorie(historie, o, l)
          IN  /\ inp' = [exists |-> historie, opdrachtgever |-> o, limit |-> l]
              /\ out' = [rows |-> r.rows, raised |-> r.raised]
              /\ historie' = r.file
    /\ pc' = "query_gunningshistorie"
    /\ UNCHANGED << now, db, req >>

CallQueryHerhalingspatronen ==
    /\ pc = "idle"
    /\ \E l \in HistorieLimits :
          LET r == query_herhalingspatronen(historie, l)
          IN  /\ inp' = [exists |-> historie, limit |-> l]
              /\ out' = [rows |-> r.rows, raised |-> r.raised]
              /\ historie' = r.file
    /\ pc' = "query_herhalingspatronen"
    /\ UNCHANGED << now, db, req >>

CallQueryVooraankondigingen ==
    /\ pc = "idle"
    /\ \E l \in HistorieLimits :
          LET r == query_vooraankondigingen(historie, l)
          IN  /\ inp' = [exists |-> historie, limit |-> l]
              /\ out' = [rows |-> r.rows, raised |-> r.raised]
              /\ historie' = r.file
    /\ pc' = "query_vooraankondigingen"
    /\ UNCHANGED << now, db, req >>

NextHistorie ==
    \/ ImportHistorie
    \/ CallIsHistorieLoaded
    \/ CallQueryGunningshistorie
    \/ CallQueryHerhalingspatronen
    \/ CallQueryVooraankondigingen
    \/ Return

SpecHistorie == InitIdle /\ [][NextHistorie]_vars

(***************************************************************************)
(* The award history without its dataset                                   *)
(***************************************************************************)

HistorieQueries ==
    {"query_gunningshistorie", "query_herhalingspatronen", "query_vooraankondigingen"}

\* C26: when the dataset of the award history is absent, each of the three
\* queries returns an empty list, raises nothing and leaves the file of the
\* dataset absent, and is_historie_loaded reports False.
C26_AbsentHistorieIsEmpty ==
    /\ (pc \in HistorieQueries /\ ~inp.exists)
       => (out.rows = << >> /\ ~out.raised /\ ~historie)
    /\ (pc = "is_historie_loaded" /\ ~inp.exists) => ~out.loaded

\* a query for the awards of a client has returned while the dataset is absent
C26_Witness ==
    /\ pc = "query_gunningshistorie"
    /\ ~inp.exists
    /\ inp.opdrachtgever = "Gemeente Amsterdam"
    /\ out.rows = << >>
    /\ ~historie

\* with the dataset in place the same query finds the awards of the client
HistorieFound ==
    (pc = "query_gunningshistorie" /\ inp.exists
        /\ inp.opdrachtgever = "amsterdam" /\ inp.limit = 5)
    => Len(out.rows) = 2

(***************************************************************************)
(***************************************************************************)
(* SpecRegistry: calls of the client of the registry                       *)
(***************************************************************************)

Pub(id, naam) == [publicatieId |-> id, aanbestedingNaam |-> naam]

PubA == Pub([str |-> "a"], "Werkplekbeheer")

PubA2 == Pub([str |-> "a"], "Werkplekbeheer (rectificatie)")

PubB == Pub([str |-> "b"], "Hosting")

Pub7 == Pub([num |-> 7], "Netwerk")

Pub7s == Pub([str |-> "7"], "Netwerk")

PubEmptyId == Pub([str |-> ""], "Zonder nummer")

PubNoId == [aanbestedingNaam |-> "Zonder nummer"]

\* the answers of the registry to the request for a page of the list
PageAnswers ==
    {Answer([content |-> << PubA >>]), Answer([content |-> << PubA2, PubNoId >>]),
     Answer([content |-> << >>]), Answer(<< >>), HttpError, NoJson}

\* the answers of the registry to the request for the detail of a publication
DetailAnswers ==
    {Answer([cpvCodes |-> << CpvEntry("72000000-5") >>]),
     Answer([cpvCodes |-> << CpvEntry("45000000-7"), << >> >>]),
     Answer([publicatieId |-> [str |-> "a"]]),
     Answer(<< >>), HttpError, NoJson}

MaxPages == 3

MaxPubs == 3

RegistryPubs == {PubA, PubA2, Pub7, Pub7s, PubEmptyId, PubNoId}

RegistryIds == {pub_id_of(p) : p \in RegistryPubs} \ {""}

RegistryCaches ==
    {[tenders |-> << >>, last_refresh |-> None],
     [tenders |-> ("a" :> [data |-> PubA, fetched_at |-> 0]), last_refresh |-> Some(0)]}

CallFetchPublications ==
    /\ pc = "idle"
    /\ UNCHANGED world
    /\ \E pages \in 0..MaxPages, responses \in [1..MaxPages -> PageAnswers] :
          /\ inp' = [pages |-> pages, responses |-> responses]
          /\ out' = fetch_publications(pages, responses)
    /\ pc' = "fetch_publications"

CallFetchDetail ==
    /\ pc = "idle"
    /\ UNCHANGED world
    /\ \E resp \in DetailAnswers :
          /\ inp' = [resp |-> resp]
          /\ out' = fetch_detail(resp)
    /\ pc' = "fetch_detail"

CallEnrichWithCpv ==
    /\ pc = "idle"
    /\ UNCHANGED world
    /\ \E publications \in SeqUpTo(RegistryPubs, MaxPubs),
          details \in [RegistryIds -> DetailAnswers \ {Answer(<< >>)}] :
          /\ inp' = [publications |-> publications, details |-> details]
          /\ out' = enrich_with_cpv(publications, details)
    /\ pc' = "enrich_with_cpv"

CallDiscoverItTenders ==
    /\ pc = "idle"
    /\ UNCHANGED world
    /\ \E responses \in SeqUpTo(PageAnswers, 2),
          da \in DetailAnswers, d7 \in {HttpError} :
          /\ inp' = [responses |-> responses, details |-> ("a" :> da) @@ ("7" :> d7)]
          /\ out' = discover_it_tenders(responses, ("a" :> da) @@ ("7" :> d7))
    /\ pc' = "discover_it_tenders"

CallGetTender ==
    /\ pc = "idle"
    /\ UNCHANGED world
    /\ \E cache \in RegistryCaches, id \in {"a", "7"}, resp \in DetailAnswers :
          /\ inp' = [cache |-> cache, publication_id |-> id, resp |-> resp]
          /\ out' = get_tender(cache, id, resp)
    /\ pc' = "get_tender"

NextRegistry ==
    \/ CallFetchPublications
    \/ CallFetchDetail
    \/ CallEnrichWithCpv
    \/ CallDiscoverItTenders
    \/ CallGetTender
    \/ Return

SpecRegistry == InitIdle /\ [][NextRegistry]_vars

(***************************************************************************)
(* Failures of the registry                                                *)
(***************************************************************************)

\* the page answered with a failure or without content
PageStops(resp) ==
    \/ resp.kind # "ok"
    \/ "content" \notin DOMAIN resp.body
    \/ resp.body.content = << >>

\* the number of the first request among the first pages that is answered
\* with a failure or without content, pages + 1 when there is none
FirstStop(pages, responses) ==
    IF \E i \in 1..pages : PageStops(responses[i])
    THEN CHOOSE i \in 1..pages :
            PageStops(responses[i]) /\ \A j \in 1..(i - 1) : ~PageStops(responses[j])
    ELSE pages + 1

RECURSIVE ContentUpTo(_, _)
\* the items of the first n pages
ContentUpTo(responses, n) ==
    IF n = 0 THEN << >>
    ELSE ContentUpTo(responses, n - 1) \o responses[n].body.content

\* fetch_publications has stopped at the first failed or empty page and
\* returned what the pages before it held
StopsAtFirstFailure ==
    LET stop == FirstStop(inp.pages, inp.responses)
    IN  /\ out.raised = None
        /\ out.requests = Min2(stop, inp.pages)
        /\ out.items = ContentUpTo(inp.responses, stop - 1)

\* the answer is a failure of the registry
Failed(resp) == resp.kind # "ok"

\* C25: a failure of the registry never reaches the caller: fetch_publications
\* sends at most `pages` requests, stops at the first failed or empty page and
\* returns the items of the pages before it; fetch_detail returns None on a
\* failure, and get_tender answers 404 for an id that is not cached.
C25_RegistryFailureNotPropagated ==
    /\ pc = "fetch_publications" => (out.requests <= inp.pages /\ StopsAtFirstFailure)
    /\ (pc = "fetch_detail" /\ Failed(inp.resp))
       => (out.raised = None /\ out.detail = None)
    /\ (pc = "get_tender" /\ Failed(inp.resp)
            /\ inp.publication_id \notin DOMAIN inp.cache.tenders)
       => out.status = HTTP_NOT_FOUND

\* the answer is a failure that httpx reports as HTTPError
HttpFailed(resp) == resp.kind = "http_error"

\* what holds of C25: the same with the failures httpx reports as HTTPError
\* as the only failures
HttpErrorNotPropagated ==
    /\ (pc = "fetch_publications"
            /\ \A i \in 1..FirstStop(inp.pages, inp.responses) :
                  i \in DOMAIN inp.responses => inp.responses[i].kind # "no_json")
       => (out.requests <= inp.pages /\ StopsAtFirstFailure)
    /\ (pc = "fetch_detail" /\ HttpFailed(inp.resp))
       => (out.raised = None /\ out.detail = None)
    /\ (pc = "get_tender" /\ HttpFailed(inp.resp)
            /\ inp.publication_id \notin DOMAIN inp.cache.tenders)
       => out.status = HTTP_NOT_FOUND

\* a page that is no JSON leaves fetch_publications as ValueError
NoJsonPageRaises ==
    (pc = "fetch_publications" /\ inp.pages >= 1 /\ inp.responses[1] = NoJson)
    => out.raised = Some("ValueError")

(***************************************************************************)
(* The CPV filter of the registry client                                   *)
(***************************************************************************)

\* the publication at position i is the first with its id
FirstWithId(publications, i) ==
    /\ pub_id_of(publications[i]) # ""
    /\ \A j \in 1..(i - 1) : pub_id_of(publications[j]) # pub_id_of(publications[i])

\* the detail of the publication was fetched and holds a CPV code of the
\* reference list
DetailMatches(resp) ==
    /\ resp.kind = "ok"
    /\ "cpvCodes" \in DOMAIN resp.body
    /\ \E i \in DOMAIN resp.body.cpvCodes :
          /\ "code" \in DOMAIN resp.body.cpvCodes[i]
          /\ matches_cpv(resp.body.cpvCodes[i].code)

\* the publication at position i is to be kept
Kept(publications, details, i) ==
    /\ FirstWithId(publications, i)
    /\ \/ HttpFailed(details[pub_id_of(publications[i])])
       \/ DetailMatches(details[pub_id_of(publications[i])])

\* the positions of the publications to be kept, in input order
KeptPositions(publications, details) ==
    SelectSeq([i \in DOMAIN publications |-> i],
              LAMBDA i : Kept(publications, details, i))

\* no detail asked for is answered with a body that is no JSON
DetailsAnswered(publications, details) ==
    \A i \in DOMAIN publications :
        FirstWithId(publications, i) => details[pub_id_of(publications[i])] # NoJson

TickSeconds == CACHE_TTL_SECONDS \div 2

MaxTicks == 3

MaxBatch == 2

Tick ==
    /\ now < MaxTicks * TickSeconds
    /\ now' = now + TickSeconds
    /\ UNCHANGED << pc, inp, out, db, historie, req >>

CallUpsertTenders ==
    /\ pc = "idle"
    /\ \E tenders \in SeqUpTo(RegistryPubs, MaxBatch) :
          LET r == upsert_tenders(db, now, tenders)
          IN  /\ inp' = [tenders |-> tenders, before |-> db]
              /\ out' = [count |-> r.count]
              /\ db' = r.db
    /\ pc' = "upsert_tenders"
    /\ UNCHANGED << now, historie, req >>

CallIsCacheFresh ==
    /\ pc = "idle"
    /\ inp' = << >>
    /\ out' = [fresh |-> is_cache_fresh(db, now)]
    /\ pc' = "is_cache_fresh"
    /\ UNCHANGED world

CallGetTenderById ==
    /\ pc = "idle"
    /\ \E id \in RegistryIds \cup {""} :
          /\ inp' = [pub_id |-> id]
          /\ out' = [raw |-> get_tender_by_id(db, id)]
    /\ pc' = "get_tender_by_id"
    /\ UNCHANGED world

CallGetAllTenders ==
    /\ pc = "idle"
    /\ inp' = << >>
    /\ out' = [rows |-> get_all_tenders(db)]
    /\ pc' = "get_all_tenders"
    /\ UNCHANGED world

NextStore ==
    \/ Tick
    \/ CallUpsertTenders
    \/ CallIsCacheFresh
    \/ CallGetTenderById
    \/ CallGetAllTenders
    \/ Return

SpecStore == InitIdle /\ [][NextStore]_vars

(***************************************************************************)
(* The records of the cache                                                *)
(***************************************************************************)

\* the ids of the records of a batch, without the empty id
BatchIds(tenders) == {pub_id_of(tenders[i]) : i \in DOMAIN tenders} \ {""}

\* the last record of the batch with the id
LastWithId(tenders, id) ==
    tenders[CHOOSE i \in DOMAIN tenders :
                /\ pub_id_of(tenders[i]) = id
                /\ \A j \in DOMAIN tenders : pub_id_of(tenders[j]) = id => j <= i]

\* C23: after an upsert the cache holds for every id one record: the last
\* record of the batch with that id, or, for an id the batch does not hold,
\* the record it held before (so after any sequence of upserts the record of
\* the most recent upsert that contained the id); no record is stored under
\* an empty id, and the count returned is the number of records written.
C23_OneRecordPerIdMostRecent ==
    /\ "" \notin DOMAIN db.tenders
    /\ pc = "upsert_tenders" =>
          /\ DOMAIN db.tenders = DOMAIN inp.before.tenders \cup BatchIds(inp.tenders)
          /\ \A id \in BatchIds(inp.tenders) :
                db.tenders[id].data = LastWithId(inp.tenders, id)
          /\ \A id \in DOMAIN inp.before.tenders \ BatchIds(inp.tenders) :
                db.tenders[id] = inp.before.tenders[id]
          /\ out.count = Cardinality({i \in DOMAIN inp.tenders :
                                         pub_id_of(inp.tenders[i]) # ""})
    /\ pc = "get_tender_by_id" =>
          out.raw = IF inp.pub_id \in DOMAIN db.tenders
                    THEN Some(db.tenders[inp.pub_id].data) ELSE None

\* a later upsert has replaced the record of one id, passed over a record
\* without id and kept the record of an id it did not contain
C23_Witness ==
    /\ pc = "upsert_tenders"
    /\ inp.tenders = << PubA2, PubNoId >>
    /\ out.count = 1
    /\ now = TickSeconds
    /\ db.tenders = ("a" :> [data |-> PubA2, fetched_at |-> TickSeconds])
                        @@ ("7" :> [data |-> Pub7, fetched_at |-> 0])

(***************************************************************************)
(***************************************************************************)
(* SpecCache: concurrent requests on the cache as time passes              *)
(***************************************************************************)

\* two requests at a time
RequestIds == {"r1", "r2"}

\* the endpoints that call _ensure_cache
EnsuredEndpoints == {"discover", "list_tenders", "stats"}

ItDetail == Answer([cpvCodes |-> << CpvEntry("72000000-5") >>])

OtherDetail == Answer([cpvCodes |-> << CpvEntry("45000000-7") >>])

Registry(pages, da, d_b) == [pages |-> pages, details |-> ("a" :> da) @@ ("b" :> d_b)]

\* what the registry answers while a request fetches: two publications of
\* which one has an IT code, a rectified and a new publication on two pages,
\* a failure on the first page, and a first page that is no JSON
Registries ==
    {Registry(<< Answer([content |-> << PubA, PubB >>]) >>, ItDetail, OtherDetail),
     Registry(<< Answer([content |-> << PubA2 >>]),
                 Answer([content |-> << PubB, PubNoId >>]) >>, HttpError, ItDetail),
     Registry(<< HttpError >>, ItDetail, ItDetail),
     Registry(<< NoJson >>, ItDetail, ItDetail)}

\* a request for discover, list_tenders or stats arrives
BeginEnsured ==
    \E r \in RequestIds \ DOMAIN req, e \in EnsuredEndpoints :
        /\ req' = req @@ (r :> begin_ensured(e, db, now))
        /\ UNCHANGED << pc, inp, out, now, db, historie >>

\* discover_it_tenders returns to _ensure_cache, and the handler runs to its end
FinishEnsured ==
    \E r \in DOMAIN req, u \in Registries :
        /\ req[r].pc = "discover_it_tenders"
        /\ req[r].endpoint \in EnsuredEndpoints
        /\ LET f == finish_ensured(req[r], db, now,
                                   discover_it_tenders(u.pages, u.details))
           IN  /\ req' = [req EXCEPT ![r] = f.request]
               /\ db' = f.db
        /\ UNCHANGED << pc, inp, out, now, historie >>

\* a request for refresh_cache arrives
BeginRefresh ==
    \E r \in RequestIds \ DOMAIN req :
        /\ req' = req @@ (r :> begin_refresh)
        /\ UNCHANGED << pc, inp, out, now, db, historie >>

\* discover_it_tenders returns to refresh_cache
FinishRefresh ==
    \E r \in DOMAIN req, u \in Registries :
        /\ req[r].pc = "discover_it_tenders"
        /\ req[r].endpoint = "refresh_cache"
        /\ LET f == finish_refresh(req[r], db, now,
                                   discover_it_tenders(u.pages, u.details))
           IN  /\ req' = [req EXCEPT ![r] = f.request]
               /\ db' = f.db
        /\ UNCHANGED << pc, inp, out, now, historie >>

\* a request for get_tender arrives
BeginGetTender ==
    \E r \in RequestIds \ DOMAIN req, id \in {"a"} :
        /\ req' = req @@ (r :> begin_get_tender(db, now, id))
        /\ UNCHANGED << pc, inp, out, now, db, historie >>

\* fetch_detail returns to get_tender
FinishGetTender ==
    \E r \in DOMAIN req, resp \in {ItDetail, HttpError, NoJson} :
        /\ req[r].pc = "fetch_detail"
        /\ req' = [req EXCEPT ![r] = finish_get_tender(req[r], now, resp)]
        /\ UNCHANGED << pc, inp, out, now, db, historie >>

\* the response of a request that is done has been sent
Respond ==
    \E r \in DOMAIN req :
        /\ req[r].pc = "done"
        /\ req' = [q \in DOMAIN req \ {r} |-> req[q]]
        /\ UNCHANGED << pc, inp, out, now, db, historie >>

NextCache ==
    \/ Tick
    \/ BeginEnsured
    \/ FinishEnsured
    \/ BeginRefresh
    \/ FinishRefresh
    \/ BeginGetTender
    \/ FinishGetTender
    \/ Respond

SpecCache == InitIdle /\ [][NextCache]_vars

(***************************************************************************)
(* The freshness step                                                      *)
(***************************************************************************)

\* a last refresh was recorded less than 1800 seconds before the time
FreshAt(last_refresh, clock) ==
    last_refresh # None /\ clock - last_refresh[1] < 1800

\* the requests of the endpoints that call _ensure_cache
Ensured == {r \in DOMAIN req : req[r].endpoint \in EnsuredEndpoints}

C24_EnrichOnlyAfterEnsure ==
    \A r \in DOMAIN req : (req[r].enriched /\ req[r].cached) => req[r].ensured

\* what holds of C24: the endpoints discover, list_tenders and stats enrich
\* only after _ensure_cache has returned
EnsuredEndpointsEnrichAfterEnsure ==
    \A r \in Ensured : req[r].enriched => req[r].ensured

\* get_tender hands a cached record to _format_tender without any call of
\* _ensure_cache, also when the last refresh is 1800 seconds or more ago
GetTenderNeverEnsures ==
    \A r \in DOMAIN req : req[r].endpoint = "get_tender" => ~req[r].ensured

\* the cache is fresh now
FreshNow == FreshAt(db.last_refresh, now)

\* the requests that have called upsert_tenders
Writers == {r \in DOMAIN req : req[r].wrote}

StaleWriters == {r \in Ensured : req[r].wrote}

RawTitles == Optional({"Werkplekbeheer"})

RawDescriptions == Optional({"SaaS hosting en ISO 27001"})

RawCpvLists == Optional(SeqUpTo({CpvEntry("72000000-5")}, MaxCpv))

RawClients == Optional({"Gemeente Amsterdam", "Stichting Onderwijs"})

RawTypes == Optional({[omschrijving |-> "Diensten"], [str |-> "Leveringen"]})

RawEuropees == Optional({TRUE})

RawClosingDates == Optional({"2026-03-01"})

RawStatedValues == Optional({250000})

\* raw tender records of the registry, each key present or missing
RawTenders ==
    { Field("aanbestedingNaam", n) @@ Field("opdrachtBeschrijving", b)
        @@ Field("cpvCodes", c) @@ Field("opdrachtgeverNaam", o)
        @@ Field("typeOpdracht", t) @@ Field("europees", e)
        @@ Field("sluitingsDatum", d) @@ Field("geraamdeWaarde", v) :
        n \in RawTitles, b \in RawDescriptions, c \in RawCpvLists, o \in RawClients,
        t \in RawTypes, e \in RawEuropees, d \in RawClosingDates, v \in RawStatedValues }

\* _format_tender(raw) is called
CallFormatTender ==
    /\ pc = "idle"
    /\ UNCHANGED world
    /\ inp' \in RawTenders
    /\ out' = << >>
    /\ pc' = StagePc(1)

\* the call at the current position binds, runs, and its result is assigned
StageCompletes ==
    \E k \in DOMAIN STAGES :
        /\ pc = StagePc(k)
        /\ CallBinds(STAGES[k])
        /\ out' = out @@ (STAGES[k].target :> StageResult(STAGES[k].callee, inp, out))
        /\ pc' = StagePc(k + 1)
        /\ UNCHANGED << inp, world >>

\* the call at the current position does not bind: TypeError leaves
\* _format_tender
StageRaises ==
    \E k \in DOMAIN STAGES :
        /\ pc = StagePc(k)
        /\ ~CallBinds(STAGES[k])
        /\ out' = [exception |-> "TypeError", message |-> TypeErrorMessage(STAGES[k])]
        /\ pc' = "_format_tender:raised"
        /\ UNCHANGED << inp, world >>

Next ==
    \/ CallFormatTender
    \/ StageCompletes
    \/ StageRaises
    \/ Return

Spec == InitIdle /\ [][Next]_vars

(***************************************************************************)
(* The pipeline as a whole                                                 *)
(***************************************************************************)

\* C1: for every raw tender record, with any of its fields missing,
\* _format_tender never ends in an exception: every call of a stage binds and
\* the pipeline is never left by a raised error.
C1_PipelineNeverRaises ==
    /\ pc # "_format_tender:raised"
    /\ \A k \in DOMAIN STAGES : pc = StagePc(k) => CallBinds(STAGES[k])

\* the six stages before the value estimate have run on a tender with every
\* field present
SixStagesDone ==
    /\ pc = StagePc(7)
    /\ DOMAIN inp = {"aanbestedingNaam", "opdrachtBeschrijving", "cpvCodes",
                     "opdrachtgeverNaam", "typeOpdracht", "europees",
                     "sluitingsDatum", "geraamdeWaarde"}
    /\ DOMAIN out = {"scoring", "segments", "certifications", "og_type",
                     "expected_reqs", "msp_fit"}

\* the value estimate of the pipeline has been due: _format_tender is past
\* the call of estimate_value, or was left by an exception
ValueEstimateDue ==
    pc \in {StagePc(k) : k \in 8..(Len(STAGES) + 1)} \cup {"_format_tender:raised"}

\* C17: if the raw tender carries an officially stated value that is present
\* and positive, the value estimate of the pipeline is that value as a point
\* estimate (minimum = maximum = stated value, exact confidence), whatever the
\* client type, the segments and the EU flag.
C17_StatedValueIsExact ==
    (ValueEstimateDue /\ "geraamdeWaarde" \in DOMAIN inp /\ inp.geraamdeWaarde > 0)
    => /\ "geschatte_waarde" \in DOMAIN out
       /\ out.geschatte_waarde.min_value = Some(inp.geraamdeWaarde)
       /\ out.geschatte_waarde.max_value = Some(inp.geraamdeWaarde)
       /\ out.geschatte_waarde.confidence = "exact"

(***************************************************************************)
(* SpecTwice: _format_tender run twice on one raw tender                   *)
(***************************************************************************)

FormatTenderEnds == {"_format_tender:raised", "_format_tender:return"}

FormatTenderPositions == {StagePc(k) : k \in DOMAIN STAGES} \cup FormatTenderEnds

\* the raw tenders with every field but the title, the description, the
\* client and the type of contract present
TwiceTenders ==
    {raw \in RawTenders :
        {"cpvCodes", "europees", "sluitingsDatum", "geraamdeWaarde"} \subseteq DOMAIN raw}

\* the first run is started on a raw tender
FirstRun ==
    /\ pc = "idle"
    /\ req = << >>
    /\ inp' \in TwiceTenders
    /\ out' = << >>
    /\ pc' = StagePc(1)
    /\ UNCHANGED world

\* the position and the locals of the run are kept, and _format_tender is
\* called again on the same raw tender
SecondRun ==
    /\ pc \in FormatTenderPositions
    /\ req = << >>
    /\ req' = [pc |-> pc, out |-> out]
    /\ pc' = StagePc(1)
    /\ out' = << >>
    /\ UNCHANGED << inp, now, db, historie >>

\* between and during the runs the dataset of the award history is imported
\* or removed
HistorieChanges ==
    /\ pc \in FormatTenderPositions
    /\ historie' = ~historie
    /\ UNCHANGED << pc, inp, out, now, db, req >>

\* both runs are over
ReturnTwice ==
    /\ pc \in FormatTenderEnds
    /\ req # << >>
    /\ pc' = "idle"
    /\ inp' = << >>
    /\ out' = << >>
    /\ req' = << >>
    /\ UNCHANGED << now, db, historie >>

NextTwice ==
    \/ FirstRun
    \/ SecondRun
    \/ HistorieChanges
    \/ StageCompletes
    \/ StageRaises
    \/ ReturnTwice

SpecTwice == InitIdle /\ [][NextTwice]_vars

(***************************************************************************)
(* Determinism of the pipeline                                             *)
(***************************************************************************)

SmallClientTexts == {"", "Pentest en SIEM", "Hosting zaaksysteem", "Beheer werkplekken"}

SmallClientNames ==
    {"Gemeente Ede", "Hogeschool Utrecht", "Universiteit Twente", "EMCO-groep",
     "SW-bedrijf Noord", "Stichting Leerplein", "Stichting Hogeschool Oost",
     "stichting emco", "Belastingdienst", "Bureau Noord"}

SMALL_CLIENT_LABEL == "Zware eisen voor kleine opdrachtgever"

CallSignalsOfClient ==
    /\ pc = "idle"
    /\ UNCHANGED world
    /\ \E n \in SmallClientTexts, o \in SmallClientNames, t \in SignalContractTypes,
          e \in BOOLEAN :
          LET segs == detect_segments(n, "", << >>)
              og_type == classify_opdrachtgever(o)
              expected_reqs == get_expected_requirements(o, segs)
              geschatte_waarde == estimate_value(e, t, og_type, segs, n, "")
          IN  /\ inp' = [naam |-> n, beschrijving |-> "", opdrachtgever |-> o,
                         opdrachtgever_type |-> og_type, type_opdracht |-> t,
                         europees |-> e, segments |-> segs,
                         expected_requirements |-> expected_reqs,
                         estimated_value |-> geschatte_waarde]
              /\ out' = detect_signals(n, "", o, og_type, t, e, segs, << >>,
                                       expected_reqs, geschatte_waarde)
    /\ pc' = "detect_signals"

NextSmallClient ==
    \/ CallSignalsOfClient
    \/ Return

SpecSmallClient == InitIdle /\ [][NextSmallClient]_vars

SmallClientSignalled == \E i \in DOMAIN out : out[i].label = SMALL_CLIENT_LABEL

NotNamedStichting == ~StartsWith(lower(inp.opdrachtgever), "stichting")

CybersecurityDetected == \E i \in DOMAIN inp.segments : inp.segments[i] = "Cybersecurity"

OnderwijsCyberReached ==
    /\ pc = "detect_signals"
    /\ NotNamedStichting
    /\ inp.opdrachtgever_type = "ONDERWIJS"
    /\ CybersecurityDetected
    /\ ~SmallClientSignalled

====
